---- MODULE Spec2Model ----
(***************************************************************************)
(* Tyre-degradation estimator of f1-race-replay:                           *)
(*   src/src/bayesian_tyre_model.py      BayesianTyreDegradationModel      *)
(*   src/src/tyre_degradation_integration.py  TyreDegradationIntegrator    *)
(*                                                                         *)
(* Numbers.  The program computes in floating point.  Here every quantity  *)
(* is a fixed-point integer:                                               *)
(*   times, paces, penalties, rates (s or s/lap) : 1 unit = 1/Scale s      *)
(*   variances (s^2)                              : 1 unit = 1/Scale s^2   *)
(*   noise scales sigma (s)                       : 1 unit = 1/100 s       *)
(*   track abrasion (dimensionless)               : 1 unit = 1/Scale       *)
(*   fuel mass (kg)                               : 1 unit = 1/10 kg       *)
(* and a division rounds down (\div).  Python's None / NaN / NaT are the   *)
(* values None, NaN, NaT below; an optional value is a sequence of length  *)
(* 0 (absent) or 1.                                                        *)
(***************************************************************************)
EXTENDS Integers, Sequences, FiniteSets, TLC

Scale == 10^4

None == "None"
NaN == "NaN"
NaT == 0 - 1

Absent == << >>
Some(v) == << v >>

Max(a, b) == IF a >= b THEN a ELSE b
Min(a, b) == IF a <= b THEN a ELSE b

(***************************************************************************)
(* Sequence helpers (pandas / numpy primitives the code relies on).        *)
(***************************************************************************)
Range(s) == { s[i] : i \in DOMAIN s }

\* Series.unique(): the distinct values in order of first appearance.
RECURSIVE Unique(_)
Unique(s) ==
    IF s = << >> THEN << >>
    ELSE LET rest == Unique(SubSeq(s, 1, Len(s) - 1))
             x == s[Len(s)]
         IN IF x \in Range(rest) THEN rest ELSE Append(rest, x)

Column(rows, name) == [ i \in DOMAIN rows |-> rows[i][name] ]

\* numpy.median of a non-empty sequence of fixed-point numbers: the middle
\* value, or the mean of the two middle values.
KthSmallest(xs, k) ==
    CHOOSE v \in Range(xs) :
        /\ Cardinality({ i \in DOMAIN xs : xs[i] < v }) < k
        /\ Cardinality({ i \in DOMAIN xs : xs[i] <= v }) >= k

Median(xs) ==
    LET n == Len(xs)
    IN IF n % 2 = 1 THEN KthSmallest(xs, (n + 1) \div 2)
       ELSE (KthSmallest(xs, n \div 2) + KthSmallest(xs, n \div 2 + 1)) \div 2

\* Series.std() > 0 / numpy.std > 0: the values are not all equal.
HasSpread(xs) == \E i, j \in DOMAIN xs : xs[i] # xs[j]

\* scipy.stats.theilslopes(y, x)[0]: the median of the pairwise slopes over
\* the pairs with x[j] > x[i].
PairwiseSlopes(y, x) ==
    LET pairs == { p \in (DOMAIN x) \X (DOMAIN x) : x[p[2]] > x[p[1]] }
        RECURSIVE Enum(_)
        Enum(ps) ==
            IF ps = {} THEN << >>
            ELSE LET p == CHOOSE q \in ps : TRUE
                 IN Append(Enum(ps \ {p}),
                           (y[p[2]] - y[p[1]]) \div (x[p[2]] - x[p[1]]))
    IN Enum(pairs)

TheilSlope(y, x) == Median(PairwiseSlopes(y, x))

(***************************************************************************)
(* Parameter catalogue and configuration.                                  *)
(***************************************************************************)
SLICK == "SLICK"
INTER == "INTER"
WETCAT == "WET"

Compounds == { "HARD", "MEDIUM", "SOFT", "INTERMEDIATE", "WET" }

\* BayesianTyreDegradationModel.__init__: the prior catalogue.
TyreProfile(cat, rate, reset, warm, cap, maxdeg) ==
    [ category |-> cat, degradation_rate |-> rate, reset_pace |-> reset,
      warmup_laps |-> warm, max_analysis_laps |-> cap, max_degradation |-> maxdeg ]

DefaultProfiles ==
    [ c \in Compounds |->
        CASE c = "HARD"         -> TyreProfile(SLICK, 100, 695000, 3, Absent, 20000)
          [] c = "MEDIUM"       -> TyreProfile(SLICK, 300, 690000, 3, Absent, 20000)
          [] c = "SOFT"         -> TyreProfile(SLICK, 500, 685000, 1, Some(10), 20000)
          [] c = "INTERMEDIATE" -> TyreProfile(INTER, 400, 750000, 2, Absent, 30000)
          [] c = "WET"          -> TyreProfile(WETCAT, 200, 800000, 2, Absent, 25000) ]

\* self._abrasion_baseline
AbrasionBaseline == [ c \in { "HARD", "MEDIUM", "SOFT" } |->
                        CASE c = "HARD" -> 30 [] c = "MEDIUM" -> 90 [] c = "SOFT" -> 150 ]

\* StateSpaceConfig defaults
FuelEffectPrior == 32
StartingFuel == 1100
FuelBurnRate == 16
DefaultSigmaEpsilon == 30
DefaultSigmaEta == 10

StateSpaceConfig(se, sh, warm, abr) ==
    [ sigma_epsilon |-> se, sigma_eta |-> sh,
      enable_warmup |-> warm, enable_track_abrasion |-> abr ]

DefaultConfig == StateSpaceConfig(DefaultSigmaEpsilon, DefaultSigmaEta, TRUE, TRUE)

\* StateSpaceConfig.__post_init__: the default mismatch table, in seconds/10.
MismatchPenalties(cat, cond) ==
    CASE cat = SLICK /\ cond = "DAMP" -> 20
      [] cat = SLICK /\ cond = "WET" -> 80
      [] cat = INTER /\ cond = "DRY" -> 15
      [] cat = INTER /\ cond = "WET" -> 5
      [] cat = WETCAT /\ cond = "DRY" -> 40
      [] cat = WETCAT /\ cond = "DAMP" -> 10
      [] OTHER -> 0

PenaltyUnit == Scale \div 10

ValidConditions == { "DRY", "DAMP", "WET" }

\* condition_map.get(track_condition, TrackCondition.DRY)
ConditionOf(track_condition) ==
    IF track_condition \in ValidConditions THEN track_condition ELSE "DRY"

(***************************************************************************)
(* Lap tables.  A table is [cols, rows]; a row carries every column the    *)
(* code reads; cols says which columns the frame really has.               *)
(***************************************************************************)
AllColumns == { "Driver", "LapNumber", "Stint", "Compound", "TrackCondition",
                "LapTime", "PitInTime", "PitOutTime" }

\* Driver codes in string order, as sort_values orders them.
DriverOrder == << "HAM", "VER" >>
Drivers == Range(DriverOrder)
DriverRank(d) == CHOOSE i \in DOMAIN DriverOrder : DriverOrder[i] = d

Row(d, n, s, c, tc, t) ==
    [ Driver |-> d, LapNumber |-> n, Stint |-> s, Compound |-> c,
      TrackCondition |-> tc, LapTime |-> t, PitInTime |-> FALSE, PitOutTime |-> FALSE ]

Table(cols, rows) == [ cols |-> cols, rows |-> rows ]

\* DataFrame.empty
IsEmpty(df) == df.cols = {} \/ df.rows = << >>

SortKeyLE(a, b) ==
    \/ DriverRank(a.Driver) < DriverRank(b.Driver)
    \/ DriverRank(a.Driver) = DriverRank(b.Driver) /\ a.LapNumber <= b.LapNumber

\* The rows in the order they came in.
Unsorted(s) == s

\* sort_values(["Driver", "LapNumber"]): stable.
RECURSIVE SortRows(_)
SortRows(s) ==
    IF s = << >> THEN << >>
    ELSE LET front == SortRows(SubSeq(s, 1, Len(s) - 1))
             x == s[Len(s)]
             k == Cardinality({ i \in DOMAIN front : SortKeyLE(front[i], x) })
         IN SubSeq(front, 1, k) \o << x >> \o SubSeq(front, k + 1, Len(front))

\* A row filter that does not look at the pit columns.
KeepTimedLap(r) ==
    /\ r.LapNumber > 1
    /\ r.LapTime # NaT
    /\ r.Compound # NaN

\* The row filter of _prepare_data (lines 251-257).
KeepLap(r) ==
    /\ r.LapNumber > 1
    /\ ~r.PitInTime
    /\ ~r.PitOutTime
    /\ r.LapTime # NaT
    /\ r.Compound # NaN

FuelMass(lap_number) == Max(0, StartingFuel - (lap_number - 1) * FuelBurnRate)

PreparedRow(r, has_condition) ==
    [ Driver |-> r.Driver, LapNumber |-> r.LapNumber, Stint |-> r.Stint,
      Compound |-> r.Compound,
      TrackCondition |-> IF has_condition THEN ConditionOf(r.TrackCondition) ELSE "DRY",
      LapTimeSeconds |-> r.LapTime,
      FuelMass |-> FuelMass(r.LapNumber) ]

\* _prepare_data: [exc, cols, rows].  A frame without the pit columns raises
\* KeyError at line 248.
PrepareData(df) ==
    IF ~({ "PitOutTime", "PitInTime" } \subseteq df.cols)
    THEN [ exc |-> "KeyError", cols |-> {}, rows |-> << >> ]
    ELSE LET kept == SelectSeq(df.rows, KeepLap)
             prep == [ i \in DOMAIN kept |->
                         PreparedRow(kept[i], "TrackCondition" \in df.cols) ]
         IN [ exc |-> "",
              cols |-> df.cols \cup { "TrackCondition", "LapTimeSeconds", "FuelMass" },
              rows |-> SortRows(prep) ]

\* The caller's table once _prepare_data has returned: laps_df.copy() at line
\* 236 gives the column writes of lines 240 and 246 a table of their own.
InputAfterPrepare(df) == df

(***************************************************************************)
(* The model object: [config, tyre_profiles, track_abrasion,               *)
(* latent_states, latent_uncertainty, fitted].  latent_states and          *)
(* latent_uncertainty are dictionaries: functions on the drivers filtered. *)
(***************************************************************************)
EmptyDict == [ d \in {} |-> << >> ]

\* BayesianTyreDegradationModel.__init__
NewModel(config) ==
    [ config |-> config,
      tyre_profiles |-> DefaultProfiles,
      track_abrasion |-> Scale,
      latent_states |-> EmptyDict,
      latent_uncertainty |-> EmptyDict,
      fitted |-> FALSE ]

RECURSIVE SetToSeq(_)
SetToSeq(S) ==
    IF S = {} THEN << >>
    ELSE LET x == CHOOSE y \in S : TRUE IN Append(SetToSeq(S \ {x}), x)

RECURSIVE Flatten(_)
Flatten(ss) == IF ss = << >> THEN << >> ELSE Flatten(SubSeq(ss, 1, Len(ss) - 1)) \o ss[Len(ss)]

\* The lap times as measured, with no fuel term taken out.
LapTimesOnly(rows) == [ i \in DOMAIN rows |-> rows[i].LapTimeSeconds ]

\* lap time minus the fuel term (lines 184-187, 331-334)
FuelCorrected(rows) ==
    [ i \in DOMAIN rows |-> rows[i].LapTimeSeconds - FuelEffectPrior * rows[i].FuelMass ]

DeltaFromFirst(rows) ==
    LET fc == FuelCorrected(rows) IN [ i \in DOMAIN rows |-> fc[i] - fc[1] ]

LapOnTyre(rows) == [ i \in DOMAIN rows |-> i ]

\* The (driver, stint) groups of a selection of laps.
StintGroups(rows) == { << rows[i].Driver, rows[i].Stint >> : i \in DOMAIN rows }

GroupLaps(rows, g) ==
    LET InGroup(r) == r.Driver = g[1] /\ r.Stint = g[2] IN SelectSeq(rows, InGroup)

(***************************************************************************)
(* estimate_track_abrasion                                                 *)
(***************************************************************************)
MinAbrasionStint == 8
MinAbrasionSamples == 3
AbrasionLow == 7000
AbrasionHigh == 14000

\* One stint's abrasion sample (lines 178-198): absent, or slope / base_rate.
AbrasionSample(stint_laps, base_rate) ==
    IF Len(stint_laps) < MinAbrasionStint THEN Absent
    ELSE LET delta == DeltaFromFirst(stint_laps)
         IN IF ~HasSpread(delta) THEN Absent
            ELSE LET slope == TheilSlope(delta, LapOnTyre(stint_laps))
                 IN IF slope > 0 THEN Some((slope * Scale) \div base_rate) ELSE Absent

SlickDryLaps(rows, compound) ==
    LET Sel(r) == r.Compound = compound /\ r.TrackCondition = "DRY"
    IN SelectSeq(rows, Sel)

AbrasionSamples(rows) ==
    LET OfCompound(c) ==
            LET laps == SlickDryLaps(rows, c)
                gs == SetToSeq(StintGroups(laps))
            IN Flatten([ i \in DOMAIN gs |->
                           AbrasionSample(GroupLaps(laps, gs[i]), AbrasionBaseline[c]) ])
        cs == SetToSeq(DOMAIN AbrasionBaseline)
    IN Flatten([ i \in DOMAIN cs |-> OfCompound(cs[i]) ])

\* The median taken as it comes.
UnclippedAbrasion(x) == x

\* float(np.clip(x, 0.7, 1.4))
ClipAbrasion(x) == Max(AbrasionLow, Min(AbrasionHigh, x))

\* estimate_track_abrasion: [exc, value].  Without a Stint column the group-by
\* at line 175 raises KeyError as soon as one baseline compound has dry laps.
EstimateTrackAbrasion(prepared) ==
    IF /\ "Stint" \notin prepared.cols
       /\ \E c \in DOMAIN AbrasionBaseline : SlickDryLaps(prepared.rows, c) # << >>
    THEN [ exc |-> "KeyError", value |-> 0 ]
    ELSE LET samples == AbrasionSamples(prepared.rows)
         IN [ exc |-> "",
              value |-> IF Len(samples) < MinAbrasionSamples THEN Scale
                        ELSE ClipAbrasion(Median(samples)) ]

(***************************************************************************)
(* _estimate_parameters                                                    *)
(***************************************************************************)
MinCompoundLaps == 5
MinStintLaps == 5
MinValidLaps == 3
MinAnalysisLaps == 3
InterSlopeCap == 800

\* _get_tyre_category
GetTyreCategory(profiles, compound) ==
    IF compound \notin DOMAIN profiles THEN SLICK ELSE profiles[compound].category

\* _should_use_lap_for_fitting
ShouldUseLapForFitting(profiles, compound, track_condition) ==
    LET cat == GetTyreCategory(profiles, compound)
        condition == ConditionOf(track_condition)
    IN CASE cat = SLICK -> condition = "DRY"
         [] cat = INTER -> condition \in { "DAMP", "WET", "DRY" }
         [] cat = WETCAT -> condition = "WET"
         [] OTHER -> FALSE

\* The fitted slope taken as it comes.
UnclippedSlope(slope) == slope

\* slope = max(0, slope)  (line 357)
ClipSlope(slope) == Max(0, slope)

\* One stint's slope sample for a compound (lines 313-367): absent or the slope.
SlopeSample(m, tyre, stint_laps) ==
    IF Len(stint_laps) < MinStintLaps THEN Absent
    ELSE LET Usable(r) == ShouldUseLapForFitting(m.tyre_profiles, r.Compound, r.TrackCondition)
             valid_laps == SelectSeq(stint_laps, Usable)
             delta == DeltaFromFirst(valid_laps)
             InWindow(i) ==
                /\ m.config.enable_warmup => i > tyre.warmup_laps
                /\ tyre.max_analysis_laps # Absent => i <= tyre.max_analysis_laps[1]
             x == SelectSeq(LapOnTyre(valid_laps), InWindow)
             y == [ k \in DOMAIN x |-> delta[x[k]] ]
             dry == Cardinality({ i \in DOMAIN valid_laps :
                                    valid_laps[i].TrackCondition = "DRY" })
         IN IF Len(valid_laps) < MinValidLaps THEN Absent
            ELSE IF Len(x) < MinAnalysisLaps \/ ~HasSpread(y) THEN Absent
            ELSE LET s0 == ClipSlope(TheilSlope(y, x))
                     s1 == IF m.config.enable_track_abrasion /\ m.track_abrasion > 0
                           THEN (s0 * Scale) \div m.track_abrasion ELSE s0
                     s2 == IF tyre.category = INTER /\ 10 * dry > 3 * Len(valid_laps)
                           THEN Min(s1, InterSlopeCap) ELSE s1
                 IN Some(s2)

CompoundLaps(rows, compound) ==
    LET Sel(r) == r.Compound = compound IN SelectSeq(rows, Sel)

\* compound_slopes[compound_name]
CompoundSlopes(m, rows, compound) ==
    LET laps == CompoundLaps(rows, compound)
        gs == SetToSeq(StintGroups(laps))
    IN IF Len(laps) < MinCompoundLaps THEN << >>
       ELSE Flatten([ i \in DOMAIN gs |->
                        SlopeSample(m, m.tyre_profiles[compound], GroupLaps(laps, gs[i])) ])

\* The slick weight for every category.
SlickWeight(category) == 3

\* prior_weight, in tenths (lines 373-378)
PriorWeight(category) ==
    CASE category = SLICK -> 3 [] category = INTER -> 4 [] OTHER -> 5

\* updated_rate (lines 380-383)
BlendRate(category, prior_rate, median_slope) ==
    (PriorWeight(category) * prior_rate + (10 - PriorWeight(category)) * median_slope) \div 10

\* A profile whose rate falls back to the weighted prior alone when there is
\* no sample.
UpdatedOrShrunkProfile(tyre, slopes) ==
    [ tyre EXCEPT !.degradation_rate =
         BlendRate(tyre.category, tyre.degradation_rate,
                   IF Len(slopes) > 0 THEN Median(slopes) ELSE 0) ]

\* The profile after the second loop of _estimate_parameters (lines 369-391).
UpdatedProfile(tyre, slopes) ==
    IF Len(slopes) > 0
    THEN [ tyre EXCEPT !.degradation_rate =
                BlendRate(tyre.category, tyre.degradation_rate, Median(slopes)) ]
    ELSE tyre

\* _estimate_parameters: [exc, tyre_profiles].  Without a Stint column the
\* group-by at line 310 raises KeyError before any rate is written.
EstimateParameters(m, prepared) ==
    IF /\ "Stint" \notin prepared.cols
       /\ \E c \in DOMAIN m.tyre_profiles :
             Len(CompoundLaps(prepared.rows, c)) >= MinCompoundLaps
    THEN [ exc |-> "KeyError", tyre_profiles |-> m.tyre_profiles ]
    ELSE [ exc |-> "",
           tyre_profiles |->
              [ c \in DOMAIN m.tyre_profiles |->
                  UpdatedProfile(m.tyre_profiles[c], CompoundSlopes(m, prepared.rows, c)) ] ]

(***************************************************************************)
(* _compute_latent_states: the state-space filter                          *)
(***************************************************************************)
\* _compute_mismatch_penalty, in time units.
ComputeMismatchPenalty(profiles, compound, track_condition) ==
    IF compound \notin DOMAIN profiles THEN 0
    ELSE MismatchPenalties(profiles[compound].category, ConditionOf(track_condition))
         * PenaltyUnit

MismatchThreshold == 5000

\* abrasion_factor (lines 476-478, 566-568)
AbrasionFactor(tyre, track_abrasion) ==
    IF tyre.category = WETCAT THEN Scale + (3 * (track_abrasion - Scale)) \div 10
    ELSE track_abrasion

\* An inflation that starts at a penalty of 0.5.
InflatedFromHalf(nu, mismatch_penalty) ==
    IF mismatch_penalty >= MismatchThreshold
    THEN (nu * (10 * Scale + mismatch_penalty)) \div (10 * Scale)
    ELSE nu

\* nu after the mismatch inflation (lines 480-489)
InflatedNu(nu, mismatch_penalty) ==
    IF mismatch_penalty > MismatchThreshold
    THEN (nu * (10 * Scale + mismatch_penalty)) \div (10 * Scale)
    ELSE nu

\* obs_var, proc_var (lines 419-420)
ObsVar(m) == m.config.sigma_epsilon * m.config.sigma_epsilon
ProcVar(m) == m.config.sigma_eta * m.config.sigma_eta

\* condition_category (line 459)
ConditionCategory(track_condition) ==
    IF ConditionOf(track_condition) = "DRY" THEN "DRY" ELSE "WET"

\* A reset test that looks at the stint alone.
MustResetOnStint(f, stint, condition_category) ==
    \/ f.mu_alpha = Absent
    \/ Some(stint) # f.prev_stint

\* The reset test of line 466 on the loop state f.
MustReset(f, stint, condition_category) ==
    \/ f.mu_alpha = Absent
    \/ Some(stint) # f.prev_stint
    \/ (f.prev_condition_category # Absent
        /\ f.prev_condition_category # Some(condition_category))

\* The loop state at the head of the per-driver loop (lines 429-434).
FilterStart ==
    [ mu_alpha |-> Absent, var_alpha |-> Absent, states |-> << >>, variances |-> << >>,
      prev_stint |-> Absent, prev_condition_category |-> Absent,
      exc |-> "", log |-> << >> ]

\* What the filter did on one lap, for the properties below: the branch taken,
\* the state before and after, the remembered stint and condition category
\* before the lap, the gain << var_pred, innovation_var >>, the degradation
\* increment before and after the mismatch inflation, the mismatch penalty.
LogEntry(lap, branch, f, after, gain, nu0, nu, pen) ==
    [ lap |-> lap.LapNumber, compound |-> lap.Compound, stint |-> lap.Stint,
      condition |-> lap.TrackCondition, lap_time |-> lap.LapTimeSeconds,
      branch |-> branch, before |-> << f.mu_alpha, f.var_alpha >>, after |-> after,
      prev_stint |-> f.prev_stint, prev_condition_category |-> f.prev_condition_category,
      gain |-> gain, nu_base |-> nu0, nu |-> nu, mismatch_penalty |-> pen ]

\* The predicted variance kept as the new variance.
PredictedVariance(var_pred, innovation_var) == var_pred

\* var_alpha = (1.0 - kalman_gain) * var_pred  (line 508)
PosteriorVariance(var_pred, innovation_var) ==
    ((innovation_var - var_pred) * var_pred) \div innovation_var

\* The predict-update branch (lines 476-508).  The gain is the pair
\* << var_pred, innovation_var >>; a zero innovation_var is the float division
\* by zero of line 502.
KalmanStep(m, f, lap, tyre) ==
    LET nu0 == (tyre.degradation_rate * AbrasionFactor(tyre, m.track_abrasion)) \div Scale
        pen == ComputeMismatchPenalty(m.tyre_profiles, lap.Compound, lap.TrackCondition)
        nu == InflatedNu(nu0, pen)
        mu == f.mu_alpha[1]
        var_pred == f.var_alpha[1] + ProcVar(m)
        expected_lap == mu + nu + FuelEffectPrior * lap.FuelMass + pen
        innovation == lap.LapTimeSeconds - expected_lap
        innovation_var == var_pred + ObsVar(m)
        gain == << var_pred, innovation_var >>
    IN IF innovation_var = 0
       THEN [ f EXCEPT !.exc = "ZeroDivisionError",
                       !.log = Append(@, LogEntry(lap, "error", f, << f.mu_alpha, f.var_alpha >>, gain, nu0, nu, pen)) ]
       ELSE LET effective_nu == (nu * (innovation_var - var_pred)) \div innovation_var
                mu_new == mu + effective_nu + (var_pred * innovation) \div innovation_var
                var_new == PosteriorVariance(var_pred, innovation_var)
            IN [ f EXCEPT !.mu_alpha = Some(mu_new), !.var_alpha = Some(var_new),
                          !.states = Append(@, mu_new),
                          !.variances = Append(@, var_new),
                          !.log = Append(@, LogEntry(lap, "update", f, << Some(mu_new), Some(var_new) >>, gain, nu0, nu, pen)) ]

\* The reset branch (lines 471-474).
ResetStep(m, f, lap, tyre) ==
    [ f EXCEPT !.mu_alpha = Some(tyre.reset_pace), !.var_alpha = Some(ProcVar(m)),
               !.prev_stint = Some(lap.Stint),
               !.prev_condition_category = Some(ConditionCategory(lap.TrackCondition)),
               !.states = Append(@, tyre.reset_pace),
               !.variances = Append(@, ProcVar(m)),
               !.log = Append(@, LogEntry(lap, "reset", f, << Some(tyre.reset_pace), Some(ProcVar(m)) >>,
                                       << >>, 0, 0, 0)) ]

\* An unknown-compound lap that is remembered as the lap of the stint.
CarryAndRemember(f, lap) ==
    [ f EXCEPT !.prev_stint = Some(lap.Stint),
               !.states = IF f.mu_alpha # Absent THEN Append(@, f.mu_alpha[1]) ELSE @,
               !.variances = IF f.mu_alpha # Absent THEN Append(@, f.var_alpha[1]) ELSE @,
               !.log = Append(@, LogEntry(lap, IF f.mu_alpha # Absent THEN "carry" ELSE "skip",
                                       f, << f.mu_alpha, f.var_alpha >>, << >>, 0, 0, 0)) ]

\* The unknown-compound branch (lines 443-448).
CarryStep(f, lap) ==
    IF f.mu_alpha # Absent
    THEN [ f EXCEPT !.states = Append(@, f.mu_alpha[1]),
                    !.variances = Append(@, f.var_alpha[1]),
                    !.log = Append(@, LogEntry(lap, "carry", f, << f.mu_alpha, f.var_alpha >>,
                                            << >>, 0, 0, 0)) ]
    ELSE [ f EXCEPT !.log = Append(@, LogEntry(lap, "skip", f, << f.mu_alpha, f.var_alpha >>,
                                            << >>, 0, 0, 0)) ]

\* One iteration of the loop over a driver's laps (lines 436-511).
FilterLap(m, f, lap) ==
    IF lap.Compound \notin DOMAIN m.tyre_profiles THEN CarryStep(f, lap)
    ELSE IF MustReset(f, lap.Stint, ConditionCategory(lap.TrackCondition))
         THEN ResetStep(m, f, lap, m.tyre_profiles[lap.Compound])
         ELSE KalmanStep(m, f, lap, m.tyre_profiles[lap.Compound])

\* sort_values("LapNumber") of one driver's laps (line 425).
RECURSIVE SortByLap(_)
SortByLap(s) ==
    IF s = << >> THEN << >>
    ELSE LET front == SortByLap(SubSeq(s, 1, Len(s) - 1))
             x == s[Len(s)]
             k == Cardinality({ i \in DOMAIN front : front[i].LapNumber <= x.LapNumber })
         IN SubSeq(front, 1, k) \o << x >> \o SubSeq(front, k + 1, Len(front))

DriverLaps(rows, driver) ==
    LET Sel(r) == r.Driver = driver IN SortByLap(SelectSeq(rows, Sel))

\* The loop over one driver's laps; an exception ends it.
RECURSIVE FilterLaps(_, _, _)
FilterLaps(m, laps, n) ==
    IF n = 0 THEN FilterStart
    ELSE LET f == FilterLaps(m, laps, n - 1)
         IN IF f.exc # "" THEN f ELSE FilterLap(m, f, laps[n])

FilterDriver(m, rows, driver) ==
    LET laps == DriverLaps(rows, driver) IN FilterLaps(m, laps, Len(laps))

\* The loop over the drivers (lines 422-514): [exc, latent_states,
\* latent_uncertainty, log]; the drivers finished before an exception keep
\* their entries.  Without a Stint column line 440 raises KeyError on the
\* first lap.
RECURSIVE FilterDrivers(_, _, _, _)
FilterDrivers(m, prepared, drivers, n) ==
    IF n = 0
    THEN [ exc |-> "", latent_states |-> EmptyDict, latent_uncertainty |-> EmptyDict,
           log |-> EmptyDict ]
    ELSE LET acc == FilterDrivers(m, prepared, drivers, n - 1)
             d == drivers[n]
             f == FilterDriver(m, prepared.rows, d)
         IN IF acc.exc # "" THEN acc
            ELSE IF "Stint" \notin prepared.cols THEN [ acc EXCEPT !.exc = "KeyError" ]
            ELSE IF f.exc # ""
                 THEN [ acc EXCEPT !.exc = f.exc, !.log = (d :> f.log) @@ @ ]
            ELSE [ acc EXCEPT !.latent_states = (d :> f.states) @@ @,
                              !.latent_uncertainty = (d :> f.variances) @@ @,
                              !.log = (d :> f.log) @@ @ ]

ComputeLatentStates(m, prepared) ==
    LET drivers == Unique(Column(prepared.rows, "Driver"))
    IN FilterDrivers(m, prepared, drivers, Len(drivers))

(***************************************************************************)
(* fit                                                                     *)
(***************************************************************************)
\* laps_df[laps_df['Driver'] == driver] when a driver is given (lines 215-216)
DriverFilter(laps_df, driver) ==
    IF driver = None THEN laps_df
    ELSE LET Sel(r) == r.Driver = driver
         IN [ laps_df EXCEPT !.rows = SelectSeq(@, Sel) ]

\* self.track_abrasion after lines 224-227: [exc, value]
FitAbrasion(m, prepared) ==
    IF m.config.enable_track_abrasion THEN EstimateTrackAbrasion(prepared)
    ELSE [ exc |-> "", value |-> Scale ]

\* An early return that marks the model unfitted.
FitOnEmptyUnfits(m) == [ m EXCEPT !.fitted = FALSE ]

\* What fit leaves when the cleaned table is empty (lines 220-222).
FitOnEmpty(m) == m

\* fit after _compute_latent_states returned ls or raised (lines 230-232).
FitWithStates(m2, ls) ==
    IF ls.exc # ""
    THEN [ model |-> [ m2 EXCEPT !.latent_states = ls.latent_states,
                                 !.latent_uncertainty = ls.latent_uncertainty ],
           exc |-> ls.exc, log |-> ls.log ]
    ELSE [ model |-> [ m2 EXCEPT !.latent_states = ls.latent_states,
                                 !.latent_uncertainty = ls.latent_uncertainty,
                                 !.fitted = TRUE ],
           exc |-> "", log |-> ls.log ]

\* fit after _estimate_parameters returned ep or raised (lines 229-230).
FitWithParameters(m1, prepared, ep) ==
    IF ep.exc # "" THEN [ model |-> m1, exc |-> ep.exc, log |-> EmptyDict ]
    ELSE FitWithStates([ m1 EXCEPT !.tyre_profiles = ep.tyre_profiles ],
                       ComputeLatentStates([ m1 EXCEPT !.tyre_profiles = ep.tyre_profiles ],
                                           prepared))

\* fit after the abrasion estimate ab (lines 224-229).
FitWithAbrasion(m, prepared, ab) ==
    IF ab.exc # "" THEN [ model |-> m, exc |-> ab.exc, log |-> EmptyDict ]
    ELSE FitWithParameters([ m EXCEPT !.track_abrasion = ab.value ], prepared,
                           EstimateParameters([ m EXCEPT !.track_abrasion = ab.value ],
                                              prepared))

\* fit on the cleaned table (lines 220-232).
FitPrepared(m, prepared) ==
    IF prepared.exc # "" THEN [ model |-> m, exc |-> prepared.exc, log |-> EmptyDict ]
    ELSE IF prepared.rows = << >>
    THEN [ model |-> FitOnEmpty(m), exc |-> "", log |-> EmptyDict ]
    ELSE FitWithAbrasion(m, prepared, FitAbrasion(m, prepared))

\* fit: [model, exc, log].  exc is "" when fit returns; otherwise model is the
\* object as the exception leaves it.
Fit(m, laps_df, driver) == FitPrepared(m, PrepareData(DriverFilter(laps_df, driver)))

(***************************************************************************)
(* predict_next_lap / get_health                                           *)
(***************************************************************************)
WarmupMax(category) ==
    CASE category = SLICK -> 3000 [] category = INTER -> 2000
      [] category = WETCAT -> 1500 [] OTHER -> 2000

\* _compute_warmup_penalty
ComputeWarmupPenalty(m, tyre, lap_on_tyre) ==
    IF ~m.config.enable_warmup \/ lap_on_tyre > tyre.warmup_laps THEN 0
    ELSE IF tyre.warmup_laps > 0
         THEN (WarmupMax(tyre.category) * (tyre.warmup_laps - (lap_on_tyre - 1)))
                \div tyre.warmup_laps
         ELSE 0

DegradationFloor == 10

\* floor(sqrt(n)), n >= 0
ISqrt(n) == CHOOSE r \in 0..(n + 1) : r * r <= n /\ (r + 1) * (r + 1) > n

\* A health without the clamp to 0..100.
HealthUnclamped(tyre, effective_degradation, laps_on_tyre, mismatch_penalty) ==
    LET e == Max(effective_degradation, DegradationFloor)
        tenths == mismatch_penalty \div PenaltyUnit
        num == IF mismatch_penalty > MismatchThreshold
               THEN 2 * laps_on_tyre * (50 + tenths) * e
               ELSE 100 * laps_on_tyre * e
        den == tyre.max_degradation
    IN 100 - ((num + den - 1) \div den)

\* A health whose mismatch factor divides the laps instead of multiplying them.
HealthPenaltyEased(tyre, effective_degradation, laps_on_tyre, mismatch_penalty) ==
    LET e == Max(effective_degradation, DegradationFloor)
        tenths == mismatch_penalty \div PenaltyUnit
        num == IF mismatch_penalty > MismatchThreshold
               THEN 5000 * laps_on_tyre * e
               ELSE 100 * laps_on_tyre * e
        den == IF mismatch_penalty > MismatchThreshold
               THEN tyre.max_degradation * (50 + tenths)
               ELSE tyre.max_degradation
        used == (num + den - 1) \div den
    IN Max(0, Min(100, 100 - used))

\* health (lines 600-613): int(max(0, min(100, 100 * (1 - effective_laps / max_laps))))
\* with max_laps = max_degradation / max(effective_degradation, 0.001) and
\* effective_laps = laps_on_tyre * (1 + penalty / 5) above the threshold.
Health(tyre, effective_degradation, laps_on_tyre, mismatch_penalty) ==
    LET e == Max(effective_degradation, DegradationFloor)
        tenths == mismatch_penalty \div PenaltyUnit
        \* 100 * effective_laps / max_laps = num / den
        num == IF mismatch_penalty > MismatchThreshold
               THEN 2 * laps_on_tyre * (50 + tenths) * e
               ELSE 100 * laps_on_tyre * e
        den == tyre.max_degradation
        used == (num + den - 1) \div den
    IN Max(0, Min(100, 100 - used))

\* No guard on the fitted flag.
NeverUnfitted(m) == FALSE

\* if not self._fitted: raise RuntimeError  (lines 542-543)
NotFitted(m) == ~m.fitted

\* predict_next_lap: [exc, info]; info is Absent for (None, None, {}).
PredictNextLap(m, driver, current_lap, laps_df, track_condition) ==
    LET Sel(r) == r.Driver = driver /\ r.LapNumber <= current_lap
        driver_laps == SortByLap(SelectSeq(laps_df.rows, Sel))
        last_lap == driver_laps[Len(driver_laps)]
        compound == last_lap.Compound
        tyre == m.tyre_profiles[compound]
        laps_on_tyre == Cardinality({ i \in DOMAIN driver_laps :
                                        driver_laps[i].Stint = last_lap.Stint })
        effective_degradation ==
            (tyre.degradation_rate * AbrasionFactor(tyre, m.track_abrasion)) \div Scale
        alpha_t == tyre.reset_pace + (laps_on_tyre - 1) * effective_degradation
                     + ComputeWarmupPenalty(m, tyre, laps_on_tyre)
        fuel_next == FuelMass(current_lap + 1)
        condition == IF track_condition # None THEN track_condition
                     ELSE IF "TrackCondition" \in laps_df.cols
                          THEN last_lap.TrackCondition ELSE "DRY"
        mismatch_penalty == ComputeMismatchPenalty(m.tyre_profiles, compound, condition)
        predicted_time == alpha_t + FuelEffectPrior * fuel_next + mismatch_penalty
        var_alpha == IF driver \in DOMAIN m.latent_uncertainty
                        /\ m.latent_uncertainty[driver] # << >>
                     THEN m.latent_uncertainty[driver][Len(m.latent_uncertainty[driver])]
                     ELSE ProcVar(m)
        std_dev == ISqrt(var_alpha + ObsVar(m))
    IN IF NotFitted(m) THEN [ exc |-> "RuntimeError", info |-> Absent ]
       ELSE IF driver_laps = << >> THEN [ exc |-> "", info |-> Absent ]
       ELSE IF "Stint" \notin laps_df.cols THEN [ exc |-> "KeyError", info |-> Absent ]
       ELSE IF compound \notin DOMAIN m.tyre_profiles THEN [ exc |-> "", info |-> Absent ]
       ELSE [ exc |-> "",
              info |-> Some([ latent_pace |-> alpha_t,
                              predicted_time |-> predicted_time,
                              std_dev |-> std_dev,
                              health |-> Health(tyre, effective_degradation,
                                                laps_on_tyre, mismatch_penalty),
                              laps_on_tyre |-> laps_on_tyre,
                              compound |-> compound,
                              category |-> tyre.category,
                              degradation_rate |-> tyre.degradation_rate,
                              effective_degradation |-> effective_degradation,
                              track_abrasion |-> m.track_abrasion,
                              mismatch_penalty |-> mismatch_penalty,
                              track_condition |-> condition ]) ]

\* The record get_health builds from info (lines 654-667).
HealthRecord(info) ==
    [ compound |-> info.compound, category |-> info.category,
      laps_on_tyre |-> info.laps_on_tyre, health |-> info.health,
      expected_delta |-> info.effective_degradation * info.laps_on_tyre,
      actual_delta |-> 0, overdriving |-> FALSE, uncertainty |-> info.std_dev,
      latent_pace |-> info.latent_pace, mismatch_penalty |-> info.mismatch_penalty,
      track_condition |-> info.track_condition, track_abrasion |-> info.track_abrasion ]

\* get_health without the test of line 651: subscripting None raises.
HealthOfUnchecked(p) ==
    IF p.exc # "" THEN [ exc |-> p.exc, value |-> Absent ]
    ELSE IF p.info = Absent THEN [ exc |-> "TypeError", value |-> Absent ]
    ELSE [ exc |-> "", value |-> Some(HealthRecord(p.info[1])) ]

\* What get_health makes of predict_next_lap's outcome p (lines 649-667).
HealthOf(p) ==
    IF p.exc # "" THEN [ exc |-> p.exc, value |-> Absent ]
    ELSE IF p.info = Absent THEN [ exc |-> "", value |-> Absent ]
    ELSE [ exc |-> "", value |-> Some(HealthRecord(p.info[1])) ]

\* get_health: [exc, value]; value is Absent for None.
GetHealth(m, driver, current_lap, laps_df, track_condition) ==
    HealthOf(PredictNextLap(m, driver, current_lap, laps_df, track_condition))

(***************************************************************************)
(* Lap tables the sessions supply.  Lap times fall or rise linearly over a *)
(* stint; the fuel term adds FuelEffectPrior * FuelBurnRate per lap to the *)
(* fuel-corrected slope.                                                   *)
(***************************************************************************)
BaseLapTime == 90 * Scale
FuelSlope == FuelEffectPrior * FuelBurnRate

\* n laps of one stint from lap `first`, fuel-corrected slope `slope` per lap.
StintRows(d, s, c, tc, first, n, slope) ==
    [ k \in 1..n |-> Row(d, first + k - 1, s, c, tc, BaseLapTime + (slope - FuelSlope) * (k - 1)) ]

PitIn(r) == [ r EXCEPT !.PitInTime = TRUE ]
PitOut(r) == [ r EXCEPT !.PitOutTime = TRUE ]
Slower(rows, k, by) == [ rows EXCEPT ![k].LapTime = @ + by ]
WithCondition(rows, k, tc) == [ rows EXCEPT ![k].TrackCondition = tc ]

EmptyTable == Table(AllColumns, << >>)

\* Every lap is removed by data preparation.
FilteredTable ==
    Table(AllColumns,
          << Row("VER", 1, 1, "MEDIUM", "DRY", BaseLapTime),
             PitIn(Row("VER", 2, 1, "MEDIUM", "DRY", BaseLapTime)),
             PitOut(Row("VER", 3, 2, "HARD", "DRY", BaseLapTime)),
             Row("VER", 4, 2, "HARD", "DRY", NaT),
             Row("HAM", 2, 1, NaN, "DRY", BaseLapTime) >>)

\* Short stints, given out of order: a DRY to WET switch inside VER's stint,
\* an unknown compound, a DAMP to WET change, a stint change, a bad label.
MixedTable ==
    Table(AllColumns,
          << Row("VER", 4, 1, "MEDIUM", "WET", BaseLapTime + 60000),
             Row("HAM", 2, 1, "HYPERSOFT", "DRY", BaseLapTime),
             Row("VER", 1, 1, "MEDIUM", "DRY", BaseLapTime + 50000),
             Row("VER", 2, 1, "MEDIUM", "DRY", BaseLapTime),
             Row("VER", 3, 1, "MEDIUM", "FOG", BaseLapTime - 1000),
             Row("HAM", 3, 1, "WET", "DAMP", BaseLapTime + 90000),
             Row("HAM", 4, 1, "WET", "WET", BaseLapTime + 95000),
             Row("HAM", 5, 2, "INTERMEDIATE", "WET", BaseLapTime + 70000),
             Row("VER", 5, 1, "HYPERSOFT", "WET", BaseLapTime + 60000),
             Row("VER", 6, 1, "MEDIUM", "WET", BaseLapTime + 61000) >>)

\* Stints long enough for slope samples, too short for abrasion samples:
\* a rising MEDIUM stint with one slow lap, a falling SOFT stint, and an
\* INTERMEDIATE stint run partly in the dry.
StintTable ==
    Table(AllColumns,
          << Row("VER", 1, 1, "MEDIUM", "DRY", BaseLapTime + 50000) >>
          \o Slower(StintRows("VER", 1, "MEDIUM", "DRY", 2, 7, 500), 5, 20000)
          \o StintRows("HAM", 1, "SOFT", "DRY", 2, 6, 0 - 800)
          \o << PitIn(Row("HAM", 8, 1, "SOFT", "DRY", BaseLapTime + 200000)) >>
          \o WithCondition(WithCondition(
                StintRows("HAM", 2, "INTERMEDIATE", "DAMP", 9, 6, 1000), 1, "DRY"), 2, "DRY"))

\* Three dry slick stints of eight laps with fuel-corrected slopes a1, a2, a3.
AbrasionTable(a1, a2, a3) ==
    Table(AllColumns,
          StintRows("VER", 1, "MEDIUM", "DRY", 2, 8, a1)
          \o << PitIn(Row("VER", 10, 1, "MEDIUM", "DRY", BaseLapTime + 200000)),
                PitOut(Row("VER", 11, 2, "HARD", "DRY", BaseLapTime + 200000)) >>
          \o Slower(StintRows("VER", 2, "HARD", "DRY", 12, 8, a2), 3, 5000)
          \o StintRows("HAM", 1, "SOFT", "DRY", 2, 8, a3))

\* A frame without the Stint and TrackCondition columns.
NoStintTable ==
    Table(AllColumns \ { "Stint", "TrackCondition" },
          << Row("HAM", 2, 0, "WET", None, BaseLapTime + 90000),
             Row("HAM", 3, 0, "WET", None, BaseLapTime + 91000) >>)

\* One SOFT stint losing a second a lap: the fitted rate wears the tyre out
\* within a few laps.
SteepTable ==
    Table(AllColumns, StintRows("VER", 1, "SOFT", "DRY", 1, 8, 10000))

\* Two laps of one stint for HAM, a single lap for VER.
LoneLapTable ==
    Table(AllColumns,
          << Row("VER", 2, 1, "SOFT", "DRY", BaseLapTime),
             Row("HAM", 2, 1, "MEDIUM", "DRY", BaseLapTime + 1000),
             Row("HAM", 3, 1, "MEDIUM", "DRY", BaseLapTime + 2000) >>)

\* Scenario A: twelve consecutive DRY laps of one driver on MEDIUM in one
\* stint.  In ScenarioTable the lap time rises by the prior MEDIUM rate each
\* lap; in ScenarioCorrectedTable the lap time less the fuel term does.
ScenarioTable ==
    Table(AllColumns,
          StintRows("VER", 1, "MEDIUM", "DRY", 1, 12,
                    DefaultProfiles["MEDIUM"].degradation_rate + FuelSlope))

ScenarioCorrectedTable ==
    Table(AllColumns,
          StintRows("VER", 1, "MEDIUM", "DRY", 1, 12,
                    DefaultProfiles["MEDIUM"].degradation_rate))

\* Rain tyres in the rain: an intermediate stint on a WET then DAMP track and
\* a wet-tyre stint on a WET then DAMP track.
WetRunTable ==
    Table(AllColumns,
          << Row("HAM", 2, 1, "INTERMEDIATE", "WET", BaseLapTime + 70000),
             Row("HAM", 3, 1, "INTERMEDIATE", "WET", BaseLapTime + 71000),
             Row("HAM", 4, 1, "INTERMEDIATE", "DAMP", BaseLapTime + 69000),
             Row("VER", 2, 1, "WET", "WET", BaseLapTime + 90000),
             Row("VER", 3, 1, "WET", "WET", BaseLapTime + 91000),
             Row("VER", 4, 1, "WET", "DAMP", BaseLapTime + 88000) >>)

LapTables ==
    { EmptyTable, FilteredTable, MixedTable, StintTable, LoneLapTable, WetRunTable,
      ScenarioTable, ScenarioCorrectedTable,
      AbrasionTable(45, 15, 75), AbrasionTable(81, 33, 195),
      AbrasionTable(180, 60, 300), AbrasionTable(81, 0 - 30, 195), NoStintTable }

\* Every one-driver table of up to MaxFilterLaps laps over a small alphabet of
\* compounds, stints and track conditions, at two levels of lap time.
MaxFilterLaps == 3
FilterCompounds == { "MEDIUM", "HYPERSOFT" }
FilterStints == { 1, 2 }
FilterConditions == { "DRY", "DAMP", "WET" }
FilterTimes == { BaseLapTime, 70 * Scale }
FilterLapChoices == FilterCompounds \X FilterStints \X FilterConditions

FilterTable(ch, t) ==
    Table(AllColumns,
          [ k \in DOMAIN ch |-> Row("VER", k + 1, ch[k][2], ch[k][1], ch[k][3], t + 1000 * k) ])

\* The choices of lap-by-lap compound, stint and condition for n laps.
FilterChoices(n) == [ 1..n -> FilterLapChoices ]

(***************************************************************************)
(* TyreDegradationIntegrator                                               *)
(*   session   Absent (None), or Some(laps) with laps Absent or Some(table)*)
(*   laps_df   Absent (None) or Some(table)                                *)
(***************************************************************************)
\* cache_key = f"{driver_code}_{current_lap}_{track_condition}"
CacheKey(driver_code, current_lap, track_condition) ==
    << driver_code, current_lap, track_condition >>

\* self._laps_df after lines 18-22
LoadedLaps(laps_df, session) ==
    IF laps_df = Absent /\ session # Absent THEN session[1] ELSE laps_df

\* The flag set whether or not fit returned.
InitializedRegardless(was, fit_exc) == TRUE

\* self._initialized after lines 30-32, given how fit ended
InitializedAfterFit(was, fit_exc) == IF fit_exc = "" THEN TRUE ELSE was

\* initialize_from_session once fit has returned or raised (lines 30-44).
InitializeFitted(I, df, r) ==
    [ laps_df |-> df, model |-> r.model,
      initialized |-> InitializedAfterFit(I.initialized, r.exc),
      value |-> (r.exc = ""), exc |-> "",
      inner |-> << [ op |-> "fit", exc |-> r.exc ] >> ]

\* initialize_from_session with the lap table df in hand (lines 24-44).
InitializeWith(I, df) ==
    IF df = Absent \/ IsEmpty(df[1])
    THEN [ laps_df |-> df, model |-> I.model, initialized |-> I.initialized,
           value |-> FALSE, exc |-> "", inner |-> << >> ]
    ELSE InitializeFitted(I, df, Fit(I.model, df[1], None))

\* initialize_from_session on I = [session, laps_df, model, initialized]:
\* [laps_df, model, initialized, value, exc, inner]; inner lists the calls made
\* on the model and how each ended.
InitializeFromSession(I) ==
    IF I.laps_df = Absent /\ I.session = Absent
    THEN [ laps_df |-> I.laps_df, model |-> I.model, initialized |-> I.initialized,
           value |-> FALSE, exc |-> "", inner |-> << >> ]
    ELSE InitializeWith(I, LoadedLaps(I.laps_df, I.session))

\* No except clause: the model's exception leaves get_tyre_health.
PropagatedError(exc) == exc

\* What leaves get_tyre_health when the model raised exc (lines 78-80).
QueryError(exc) == ""

\* A cache of one entry: storing a record drops the others.
CacheOfLatest(cache, key, health_data) ==
    IF health_data = Absent THEN cache ELSE (key :> health_data[1])

\* A query that stores nothing.
CacheUntouched(cache, key, health_data) == cache

\* if health_data: self._cache[cache_key] = health_data  (lines 73-74)
CacheAfterQuery(cache, key, health_data) ==
    IF health_data # Absent THEN (key :> health_data[1]) @@ cache ELSE cache

\* get_tyre_health once the model's get_health has returned or raised
\* (lines 73-80).
QueryResult(cache, key, r) ==
    IF r.exc # ""
    THEN [ cache |-> cache, value |-> Absent, exc |-> QueryError(r.exc),
           inner |-> << [ op |-> "get_health", exc |-> r.exc ] >> ]
    ELSE [ cache |-> CacheAfterQuery(cache, key, r.value), value |-> r.value, exc |-> "",
           inner |-> << [ op |-> "get_health", exc |-> "" ] >> ]

\* get_tyre_health that answers from the cache whatever force_refresh says.
GetTyreHealthCacheFirst(I, cache, driver_code, current_lap, track_condition, force_refresh) ==
    IF ~I.initialized
    THEN [ cache |-> cache, value |-> Absent, exc |-> "", inner |-> << >> ]
    ELSE IF CacheKey(driver_code, current_lap, track_condition) \in DOMAIN cache
    THEN [ cache |-> cache,
           value |-> Some(cache[CacheKey(driver_code, current_lap, track_condition)]),
           exc |-> "", inner |-> << >> ]
    ELSE QueryResult(cache, CacheKey(driver_code, current_lap, track_condition),
                     GetHealth(I.model, driver_code, current_lap, I.laps_df[1],
                               track_condition))

\* get_tyre_health: [cache, value, exc, inner]
GetTyreHealth(I, cache, driver_code, current_lap, track_condition, force_refresh) ==
    IF ~I.initialized
    THEN [ cache |-> cache, value |-> Absent, exc |-> "", inner |-> << >> ]
    ELSE IF ~force_refresh /\ CacheKey(driver_code, current_lap, track_condition) \in DOMAIN cache
    THEN [ cache |-> cache,
           value |-> Some(cache[CacheKey(driver_code, current_lap, track_condition)]),
           exc |-> "", inner |-> << >> ]
    ELSE QueryResult(cache, CacheKey(driver_code, current_lap, track_condition),
                     GetHealth(I.model, driver_code, current_lap, I.laps_df[1],
                               track_condition))

(***************************************************************************)
(* format_tyre_health_bar (tyre_degradation_integration.py, lines 115-138). *)
(* fill_width is kept in hundredths of a unit of width.  The colour        *)
(* channels are the truncations of double products: int(k * (n / 25.0))    *)
(* is the floor of k * n / 25 for every k and n used here, and             *)
(* int(220 * (1 - n / 25.0)) is the floor of 220 * (25 - n) / 25 except at *)
(* n = 20 (health 70), where the double product 220 * (1 - 0.8) is         *)
(* 43.99999999999999 and truncates to 43.                                  *)
(***************************************************************************)
\* The health as passed in, with no clamp.
HealthAsGiven(health) == health

\* health = max(0, min(100, health))  (line 117)
ClampHealth(health) == Max(0, Min(100, health))

\* int(k * (n / 25.0))
IntScaled(k, n) == (k * n) \div 25

\* int(k * (1 - n / 25.0))
IntScaledComplement(k, n) ==
    IF k = 220 /\ n = 20 THEN 43 ELSE (k * (25 - n)) \div 25

\* The colour of lines 120-130 for a clamped health.
BarColor(health) ==
    IF health >= 75 THEN << 0, 220, 0 >>
    ELSE IF health >= 50 THEN << IntScaledComplement(220, health - 50), 220, 0 >>
    ELSE IF health >= 25 THEN << 220, IntScaled(220, health - 25), 0 >>
    ELSE << 220, IntScaled(110, health), 0 >>

FormatTyreHealthBar(health, width, height) ==
    [ width |-> width, height |-> height,
      fill_width |-> ClampHealth(health) * width,
      color |-> BarColor(ClampHealth(health)),
      health |-> ClampHealth(health) ]

(***************************************************************************)
(* State.                                                                  *)
(*   model        the BayesianTyreDegradationModel object (the integrator's*)
(*                _model)                                                  *)
(*   session      the integrator's session                                 *)
(*   laps_df      the integrator's _laps_df                                *)
(*   initialized  the integrator's _initialized                            *)
(*   cache        the integrator's _cache: cache key -> health record      *)
(*   seen         history: per cache key, what the latest get_tyre_health  *)
(*                call without force_refresh returned on the initialized   *)
(*                integrator since the cache was last cleared, and whether *)
(*                a force_refresh call for the key came after it           *)
(*   last         the call that has just returned: its arguments, what it  *)
(*                returned or raised, the calls it made on the model, the  *)
(*                filter log of a fit, and the state it started from       *)
(*   pc           "idle", or "returned" while the caller holds `last`      *)
(*   nfits        fit calls made so far                                    *)
(***************************************************************************)
VARIABLES model, session, laps_df, initialized, cache, seen, last, pc, nfits

vars == << model, session, laps_df, initialized, cache, seen, last, pc, nfits >>
integrator_vars == << session, laps_df, initialized, cache, seen >>

MaxFits == 2

ZeroNoiseConfig == StateSpaceConfig(0, 0, TRUE, TRUE)
NoObsNoiseConfig == StateSpaceConfig(0, DefaultSigmaEta, TRUE, TRUE)
\* No process noise, warm-up and track-abrasion modelling switched off.
PlainConfig == StateSpaceConfig(DefaultSigmaEpsilon, 0, FALSE, FALSE)

Configs == { DefaultConfig, ZeroNoiseConfig, NoObsNoiseConfig, PlainConfig }

FitDrivers == { None, "VER" }
QueryTables == { MixedTable, NoStintTable }
QueryLaps == { 2, 6 }
QueryConditions == { None, "WET" }

NoCall == [ op |-> "", args |-> << >>, exc |-> "", value |-> Absent,
            inner |-> << >>, log |-> EmptyDict,
            pre |-> [ model |-> << >>, initialized |-> FALSE, cache |-> << >>,
                      seen |-> << >> ] ]

Call(op, args, exc, value, inner, log) ==
    [ op |-> op, args |-> args, exc |-> exc, value |-> value, inner |-> inner, log |-> log,
      pre |-> [ model |-> model, initialized |-> initialized, cache |-> cache,
                seen |-> seen ] ]

ModelInit ==
    /\ model \in { NewModel(c) : c \in Configs }
    /\ session = Absent
    /\ laps_df = Absent
    /\ initialized = FALSE
    /\ cache = EmptyDict
    /\ seen = EmptyDict
    /\ last = NoCall
    /\ pc = "idle"
    /\ nfits = 0

\* model.fit(laps_df, driver)
ModelFit(df, driver) ==
    /\ pc = "idle"
    /\ nfits < MaxFits
    /\ \E r \in { Fit(model, df, driver) } :
          /\ model' = r.model
          /\ last' = Call("fit", << df, driver >>, r.exc, Absent, << >>, r.log)
    /\ nfits' = nfits + 1
    /\ pc' = "returned"
    /\ UNCHANGED integrator_vars

\* model.predict_next_lap(driver, current_lap, laps_df, track_condition)
ModelPredictNextLap(driver, current_lap, df, track_condition) ==
    /\ pc = "idle"
    /\ \E r \in { PredictNextLap(model, driver, current_lap, df, track_condition) } :
          last' = Call("predict_next_lap", << driver, current_lap, df, track_condition >>,
                       r.exc, r.info, << >>, EmptyDict)
    /\ pc' = "returned"
    /\ UNCHANGED << model, nfits >>
    /\ UNCHANGED integrator_vars

\* model.get_health(driver, current_lap, laps_df, track_condition)
ModelGetHealth(driver, current_lap, df, track_condition) ==
    /\ pc = "idle"
    /\ \E r \in { GetHealth(model, driver, current_lap, df, track_condition) } :
          last' = Call("get_health", << driver, current_lap, df, track_condition >>,
                       r.exc, r.value, << >>, EmptyDict)
    /\ pc' = "returned"
    /\ UNCHANGED << model, nfits >>
    /\ UNCHANGED integrator_vars

\* The caller takes the result and goes on.
Resume ==
    /\ pc = "returned"
    /\ pc' = "idle"
    /\ last' = NoCall
    /\ UNCHANGED << model, nfits >>
    /\ UNCHANGED integrator_vars

ModelNext ==
    \/ \E df \in LapTables, d \in FitDrivers : ModelFit(df, d)
    \/ \E d \in Drivers, n \in QueryLaps, df \in QueryTables, tc \in QueryConditions :
          ModelPredictNextLap(d, n, df, tc)
    \/ \E d \in Drivers, n \in QueryLaps, df \in QueryTables, tc \in QueryConditions :
          ModelGetHealth(d, n, df, tc)
    \/ Resume

\* The model object through its life: fits on any of the lap tables, queries.
Spec == ModelInit /\ [][ModelNext]_vars

\* One fit of a fresh model on a short one-driver table.
FilterFit ==
    /\ nfits = 0
    /\ pc = "idle"
    /\ \E n \in 1..MaxFilterLaps :
          \E ch \in FilterChoices(n), t \in FilterTimes : ModelFit(FilterTable(ch, t), None)

FilterNext ==
    \/ FilterFit
    \/ Resume

FilterSpec == ModelInit /\ [][FilterNext]_vars

(***************************************************************************)
(* The integrator through its life.                                        *)
(***************************************************************************)
SessionTables ==
    { EmptyTable, FilteredTable, MixedTable, StintTable, NoStintTable, SteepTable }
IntegratorLaps == { 2 }
IntegratorConditions == { None, "WET" }

IntegratorInit ==
    /\ model = NewModel(DefaultConfig)
    /\ \/ session = Absent /\ laps_df \in { Absent } \cup { Some(t) : t \in SessionTables }
       \/ session \in { Some(Absent) } \cup { Some(Some(t)) : t \in SessionTables }
          /\ laps_df = Absent
    /\ initialized = FALSE
    /\ cache = EmptyDict
    /\ seen = EmptyDict
    /\ last = NoCall
    /\ pc = "idle"
    /\ nfits = 0

Integrator == [ session |-> session, laps_df |-> laps_df, model |-> model,
                initialized |-> initialized ]

\* integrator.initialize_from_session()
DoInitializeFromSession ==
    /\ pc = "idle"
    /\ nfits < MaxFits
    /\ \E r \in { InitializeFromSession(Integrator) } :
          /\ laps_df' = r.laps_df
          /\ model' = r.model
          /\ initialized' = r.initialized
          /\ nfits' = nfits + Len(r.inner)
          /\ last' = Call("initialize_from_session", << >>, r.exc, Some(r.value),
                          r.inner, EmptyDict)
    /\ pc' = "returned"
    /\ UNCHANGED << session, cache, seen >>

\* integrator.get_tyre_health(driver_code, current_lap, track_condition, force_refresh)
DoGetTyreHealth(driver_code, current_lap, track_condition, force_refresh) ==
    /\ pc = "idle"
    /\ \E r \in { GetTyreHealth(Integrator, cache, driver_code, current_lap,
                                  track_condition, force_refresh) },
          key \in { CacheKey(driver_code, current_lap, track_condition) } :
          /\ cache' = r.cache
          /\ last' = Call("get_tyre_health",
                          << driver_code, current_lap, track_condition, force_refresh >>,
                          r.exc, r.value, r.inner, EmptyDict)
          /\ seen' = IF ~initialized THEN seen
                     ELSE IF force_refresh
                          THEN [ k \in DOMAIN seen |->
                                   IF k = key THEN [ seen[k] EXCEPT !.refreshed = TRUE ]
                                   ELSE seen[k] ]
                          ELSE (key :> [ value |-> r.value, refreshed |-> FALSE ]) @@ seen
    /\ pc' = "returned"
    /\ UNCHANGED << model, session, laps_df, initialized, nfits >>

\* integrator.clear_cache()
DoClearCache ==
    /\ pc = "idle"
    /\ cache' = EmptyDict
    /\ seen' = EmptyDict
    /\ last' = Call("clear_cache", << >>, "", Absent, << >>, EmptyDict)
    /\ pc' = "returned"
    /\ UNCHANGED << model, session, laps_df, initialized, nfits >>

IntegratorNext ==
    \/ DoInitializeFromSession
    \/ \E d \in Drivers, n \in IntegratorLaps, tc \in IntegratorConditions, f \in BOOLEAN :
          DoGetTyreHealth(d, n, tc, f)
    \/ DoClearCache
    \/ Resume

IntegratorSpec == IntegratorInit /\ [][IntegratorNext]_vars

(***************************************************************************)
(* The health formula on its own: a compound of the catalogue, a track     *)
(* condition and an effective degradation are fixed, and the health is     *)
(* computed for a growing number of laps on the tyre.  Rates at or below   *)
(* the 0.001 floor are followed out to the laps at which they wear the     *)
(* tyre out.                                                               *)
(***************************************************************************)
MaxHealthLaps == 12
HealthRates == { 0, 5, 10, 300, 1820, 5000, 30000 }
HealthConditions == { "DRY", "DAMP", "WET" }
HealthLaps(effective_degradation) ==
    IF effective_degradation <= DegradationFloor
    THEN 1..MaxHealthLaps \cup { 1999, 2000, 3999, 4000 }
    ELSE 1..MaxHealthLaps

\* The health predict_next_lap computes at lines 600-613 for the inputs
\* << compound, condition, effective_degradation, laps_on_tyre >>.
HealthAt(m, in) ==
    Health(m.tyre_profiles[in[1]], in[3], in[4],
           ComputeMismatchPenalty(m.tyre_profiles, in[1], in[2]))

HealthInit ==
    /\ model = NewModel(DefaultConfig)
    /\ session = Absent
    /\ laps_df = Absent
    /\ initialized = FALSE
    /\ cache = EmptyDict
    /\ seen = EmptyDict
    /\ \E c \in Compounds, tc \in HealthConditions, e \in HealthRates :
          last = [ NoCall EXCEPT !.args = << c, tc, e, 0 >> ]
    /\ pc = "idle"
    /\ nfits = 0

\* The health for a larger number of laps on the same tyre.
HealthStep ==
    /\ \E n \in HealthLaps(last.args[3]) :
          /\ n > last.args[4]
          /\ \E in \in { [ last.args EXCEPT ![4] = n ] } :
                last' = [ last EXCEPT !.op = "health", !.args = in,
                                      !.value = Some(HealthAt(model, in)) ]
    /\ UNCHANGED << model, pc, nfits >>
    /\ UNCHANGED integrator_vars

HealthSpec == HealthInit /\ [][HealthStep]_vars

(***************************************************************************)
(* format_tyre_health_bar on its own: every health from BarOvershoot below *)
(* 0 to BarOvershoot above 100, a few widths, the default height.          *)
(***************************************************************************)
BarOvershoot == 5
BarHealths == (0 - BarOvershoot)..(100 + BarOvershoot)
BarWidths == { 0, 1, 60, 100, 240 }
BarHeight == 12

BarInit ==
    /\ model = NewModel(DefaultConfig)
    /\ session = Absent
    /\ laps_df = Absent
    /\ initialized = FALSE
    /\ cache = EmptyDict
    /\ seen = EmptyDict
    /\ \E h \in BarHealths, w \in BarWidths :
          last = [ NoCall EXCEPT !.args = << h, w, BarHeight >> ]
    /\ pc = "idle"
    /\ nfits = 0

\* format_tyre_health_bar(health, width, height)
BarFormat ==
    /\ pc = "idle"
    /\ last' = [ last EXCEPT !.op = "format_tyre_health_bar",
                             !.value = Some(FormatTyreHealthBar(last.args[1], last.args[2],
                                                                last.args[3])) ]
    /\ pc' = "returned"
    /\ UNCHANGED << model, nfits >>
    /\ UNCHANGED integrator_vars

BarSpec == BarInit /\ [][BarFormat]_vars

(***************************************************************************)
(* _prepare_data on its own: every raw table of up to MaxPrepareLaps laps, *)
(* each lap a first lap or a later one, clean or with one of the defects   *)
(* the row filter looks for, with and without a TrackCondition column.     *)
(* laps_df is the caller's table.                                          *)
(***************************************************************************)
MaxPrepareLaps == 2
PrepareLapNumbers == { 1, 2, 3 }
PrepareDefects ==
    { "none", "pit_in", "pit_out", "pit_both", "no_time", "no_compound", "bad_condition" }
PrepareLapChoices == Drivers \X PrepareLapNumbers \X PrepareDefects
PrepareChoices(n) == [ 1..n -> PrepareLapChoices ]

\* Lap k of a raw table: driver ch[1], lap number ch[2], defect ch[3].
RawRow(ch, k) ==
    [ Row(ch[1], ch[2], 1,
          IF ch[3] = "no_compound" THEN NaN ELSE "MEDIUM",
          IF ch[3] = "bad_condition" THEN "FOG" ELSE "WET",
          IF ch[3] = "no_time" THEN NaT ELSE BaseLapTime + k)
      EXCEPT !.PitInTime = ch[3] \in { "pit_in", "pit_both" },
             !.PitOutTime = ch[3] \in { "pit_out", "pit_both" } ]

RawTable(cols, ch) == Table(cols, [ k \in DOMAIN ch |-> RawRow(ch[k], k) ])

PrepareInit ==
    /\ model = NewModel(DefaultConfig)
    /\ session = Absent
    /\ \E n \in 0..MaxPrepareLaps :
          \E ch \in PrepareChoices(n),
             cols \in { AllColumns, AllColumns \ { "TrackCondition" } } :
             laps_df = Some(RawTable(cols, ch))
    /\ initialized = FALSE
    /\ cache = EmptyDict
    /\ seen = EmptyDict
    /\ last = NoCall
    /\ pc = "idle"
    /\ nfits = 0

\* model._prepare_data(laps_df)
DoPrepareData ==
    /\ pc = "idle"
    /\ \E r \in { PrepareData(laps_df[1]) } :
          last' = [ NoCall EXCEPT !.op = "prepare_data", !.args = << laps_df[1] >>,
                                  !.exc = r.exc,
                                  !.value = Some([ cols |-> r.cols, rows |-> r.rows ]) ]
    /\ laps_df' = Some(InputAfterPrepare(laps_df[1]))
    /\ pc' = "returned"
    /\ UNCHANGED << model, session, initialized, cache, seen, nfits >>

PrepareSpec == PrepareInit /\ [][DoPrepareData]_vars

(***************************************************************************)
(* Properties.                                                             *)
(***************************************************************************)
IsQuery == last.op \in { "predict_next_lap", "get_health" }

\* The lap history a fit or a query was given; the columns every lap history
\* supplies (TrackCondition is optional).
FitTable == last.args[1]
QueryTable == last.args[3]
WellFormed(df) == AllColumns \ { "TrackCondition" } \subseteq df.cols

\* The fit's lap history is empty once filtered by driver and cleaned.
CleanedEmpty == PrepareData(DriverFilter(last.args[1], last.args[2])).rows = << >>

\* C2: a query on a model whose fitted flag is not set raises the 'not fitted'
\* error, returns nothing and leaves the model as it was.
C2_NotFittedFails ==
    (IsQuery /\ ~last.pre.model.fitted)
        => /\ last.exc = "RuntimeError"
           /\ last.value = Absent
           /\ model = last.pre.model

\* A fit was attempted, did not succeed, and the query after it failed.
C2_Witness ==
    /\ last.op = "get_health"
    /\ nfits > 0
    /\ ~last.pre.model.fitted
    /\ last.exc = "RuntimeError"

\* C3 (as stated): a fit whose cleaned lap history is empty raises nothing and
\* leaves the fitted flag false, in every state in which fit is called.
C3_EmptyFitUnfitted ==
    (last.op = "fit" /\ CleanedEmpty) => (last.exc = "" /\ ~model.fitted)

\* C3 (amended): a fit whose cleaned lap history is empty raises nothing and
\* leaves the whole model, the fitted flag included, exactly as it was.
C3_EmptyFitChangesNothing ==
    (last.op = "fit" /\ CleanedEmpty) => (last.exc = "" /\ model = last.pre.model)

\* An empty fit of a model that an earlier fit had fitted: it stays fitted.
C3_Witness ==
    /\ last.op = "fit"
    /\ CleanedEmpty
    /\ last.pre.model.fitted
    /\ model.fitted

\* The laps a query looks at, and the compound of the latest of them.
QueryLapsOf(df, driver, current_lap) ==
    { i \in DOMAIN df.rows : df.rows[i].Driver = driver /\ df.rows[i].LapNumber <= current_lap }

NoLapYet == QueryLapsOf(QueryTable, last.args[1], last.args[2]) = {}

LatestCompoundUnknown ==
    LET df == QueryTable
        mine == QueryLapsOf(df, last.args[1], last.args[2])
    IN /\ mine # {}
       /\ \E i \in mine :
            /\ \A j \in mine : df.rows[j].LapNumber <= df.rows[i].LapNumber
            /\ df.rows[i].Compound \notin DOMAIN last.pre.model.tyre_profiles

C8_RateNonNegative ==
    \A c \in DOMAIN model.tyre_profiles : model.tyre_profiles[c].degradation_rate >= 0

\* A fit that saw a stint of falling lap times and moved the compound's rate
\* below its prior.
C8_Witness ==
    /\ last.op = "fit"
    /\ last.exc = ""
    /\ \E c \in DOMAIN model.tyre_profiles :
          /\ \E s \in Range(CompoundSlopes(
                            [ last.pre.model EXCEPT !.track_abrasion = model.track_abrasion ],
                            PrepareData(DriverFilter(last.args[1], last.args[2])).rows, c)) :
                s = 0
          /\ model.tyre_profiles[c].degradation_rate
                < last.pre.model.tyre_profiles[c].degradation_rate

\* The abrasion the claim describes for a cleaned lap history.
DescribedAbrasion(m, df, driver) ==
    LET samples == AbrasionSamples(PrepareData(DriverFilter(df, driver)).rows)
        median == Median(samples)
    IN IF ~m.config.enable_track_abrasion \/ Len(samples) < MinAbrasionSamples THEN Scale
       ELSE IF median < AbrasionLow THEN AbrasionLow
       ELSE IF median > AbrasionHigh THEN AbrasionHigh
       ELSE median

AbrasionInRange == AbrasionLow <= model.track_abrasion /\ model.track_abrasion <= AbrasionHigh

\* C10 (as stated): after any fit, track_abrasion is what the samples of that
\* fit's lap history give: 1.0 with fewer than 3 samples or with abrasion
\* modelling disabled, else their median clamped into [0.7, 1.4].
C10_AbrasionAfterAnyFit ==
    (last.op = "fit" /\ last.exc = "")
        => model.track_abrasion = DescribedAbrasion(model, last.args[1], last.args[2])

\* C10 (amended): that holds after every fit whose cleaned lap history is not
\* empty; a fit whose cleaned history is empty leaves track_abrasion as it
\* was; track_abrasion is in [0.7, 1.4] in every state.
C10_AbrasionAfterFit ==
    /\ (last.op = "fit" /\ WellFormed(FitTable) /\ ~CleanedEmpty)
          => model.track_abrasion = DescribedAbrasion(model, last.args[1], last.args[2])
    /\ (last.op = "fit" /\ CleanedEmpty)
          => model.track_abrasion = last.pre.model.track_abrasion
    /\ AbrasionInRange

\* A fit whose median sample was above 1.4.
C10_Witness ==
    /\ last.op = "fit"
    /\ model.config.enable_track_abrasion
    /\ LET samples == AbrasionSamples(PrepareData(DriverFilter(last.args[1], last.args[2])).rows)
       IN Len(samples) >= MinAbrasionSamples /\ Median(samples) > AbrasionHigh
    /\ model.track_abrasion = AbrasionHigh

\* The entries of the last fit's filter log, as (driver, index) pairs.
LogEntries == UNION { { << d, i >> : i \in DOMAIN last.log[d] } : d \in DOMAIN last.log }

KnownCompound(e) == e.compound \in DOMAIN model.tyre_profiles

\* The driver's known-compound laps before lap i of the log.
KnownBefore(log, i) == { j \in 1..(i - 1) : KnownCompound(log[j]) }

\* Lap i is the driver's first known-compound lap, or differs from the
\* previous known-compound lap in stint or in condition category.
ResetDue(log, i) ==
    \/ KnownBefore(log, i) = {}
    \/ LET j == CHOOSE k \in KnownBefore(log, i) : \A h \in KnownBefore(log, i) : h <= k
       IN \/ log[i].stint # log[j].stint
          \/ ConditionCategory(log[i].condition) # ConditionCategory(log[j].condition)

\* C6: on every lap with a known compound the filter resets to (reset_pace,
\* process-noise variance) exactly when the lap is the driver's first
\* known-compound lap or differs from the previous known-compound lap in stint
\* or in condition category (DRY against DAMP/WET); every other such lap goes
\* through the predict-update step.
C6_ResetExactly ==
    last.op = "fit" =>
        \A di \in LogEntries :
            LET log == last.log[di[1]]
                e == log[di[2]]
            IN KnownCompound(e) =>
                 /\ e.branch = "reset" <=> ResetDue(log, di[2])
                 /\ e.branch = "reset" =>
                       e.after = << Some(model.tyre_profiles[e.compound].reset_pace),
                                    Some(ProcVar(model)) >>
                 /\ e.branch # "reset" => e.branch \in { "update", "error" }

\* A DRY to WET switch inside a stint reset the state, and a DAMP to WET change
\* inside the same stint went through the predict-update step.
C6_Witness ==
    /\ last.op = "fit"
    /\ last.exc = ""
    /\ \E d \in DOMAIN last.log :
          LET log == last.log[d]
          IN /\ Len(log) = 3
             /\ \A i \in 1..3 : KnownCompound(log[i]) /\ log[i].stint = log[1].stint
             /\ log[1].condition = "DRY" /\ log[2].condition = "DAMP"
             /\ log[3].condition = "WET"
             /\ log[2].branch = "reset"
             /\ log[2].after[1] = Some(model.tyre_profiles[log[2].compound].reset_pace)
             /\ log[2].lap_time # model.tyre_profiles[log[2].compound].reset_pace
             /\ log[3].branch = "update"

\* C9: in every predict-update step the gain var_pred / (var_pred + obs_var)
\* is defined and lies in [0, 1].
C9_GainInUnitInterval ==
    last.op = "fit" =>
        \A di \in LogEntries :
            LET e == last.log[di[1]][di[2]]
            IN e.branch \in { "update", "error" } =>
                 /\ e.gain[2] # 0
                 /\ 0 <= e.gain[1]
                 /\ e.gain[1] <= e.gain[2]

\* A fit that ended in the division by zero of the gain: both noise scales are
\* zero and a lap followed another of its stint and condition category.
C9_Witness ==
    /\ last.op = "fit"
    /\ last.exc = "ZeroDivisionError"
    /\ model.config.sigma_epsilon = 0
    /\ model.config.sigma_eta = 0
    /\ ~model.fitted
    /\ \E di \in LogEntries :
          last.log[di[1]][di[2]].branch = "error" /\ last.log[di[1]][di[2]].gain = << 0, 0 >>

\* The last call was get_tyre_health without force_refresh, on the initialized
\* integrator, for a key already queried that way since the cache was last
\* cleared.
LastKey == CacheKey(last.args[1], last.args[2], last.args[3])

RepeatedQuery ==
    /\ last.op = "get_tyre_health"
    /\ ~last.args[4]
    /\ last.pre.initialized
    /\ LastKey \in DOMAIN last.pre.seen

ModelInvoked == last.inner # << >>

\* C1 (as stated): the second of two get_tyre_health calls for a key without
\* force_refresh, with no clear_cache between them, returns what the first
\* returned and does not invoke the model, whatever the first returned.
C1_SecondQueryFromCache ==
    RepeatedQuery => (last.value = last.pre.seen[LastKey].value /\ ~ModelInvoked)

\* C1 (amended): with no clear_cache and no force_refresh call for the key
\* between them, the second call returns what the first returned; it does not
\* invoke the model when the first returned a health record, and invokes it
\* again when the first returned None.
C1_SecondQuerySameResult ==
    (RepeatedQuery /\ ~last.pre.seen[LastKey].refreshed)
        => /\ last.value = last.pre.seen[LastKey].value
           /\ ModelInvoked <=> last.pre.seen[LastKey].value = Absent

\* A second query answered from the cache with the record the first returned.
C1_Witness ==
    /\ RepeatedQuery
    /\ ~last.pre.seen[LastKey].refreshed
    /\ last.pre.seen[LastKey].value # Absent
    /\ last.value = last.pre.seen[LastKey].value
    /\ ~ModelInvoked

FitRaised == last.inner # << >> /\ last.inner[1].exc # ""

\* C4: initialize_from_session raises nothing; with no session and no lap
\* table, with an empty lap table, or when fit raises, it returns False and
\* the integrator is not initialized; it returns True only when it called fit
\* and fit returned.
C4_InitializeNeverRaises ==
    last.op = "initialize_from_session" =>
        /\ last.exc = ""
        /\ (laps_df = Absent \/ IsEmpty(laps_df[1]) \/ FitRaised)
              => (last.value = Some(FALSE) /\ ~initialized)
        /\ last.value = Some(FALSE) => initialized = last.pre.initialized
        /\ last.value = Some(TRUE)
              => (last.inner = << [ op |-> "fit", exc |-> "" ] >> /\ initialized)
        /\ last.value \in { Some(TRUE), Some(FALSE) }

\* fit raised inside initialize_from_session, which returned False.
C4_Witness ==
    /\ last.op = "initialize_from_session"
    /\ FitRaised
    /\ last.exc = ""
    /\ last.value = Some(FALSE)
    /\ ~initialized

ModelRaised == last.inner # << >> /\ last.inner[1].exc # ""

\* C5: get_tyre_health raises nothing; when the model's get_health raises it
\* returns None and leaves the cache as it was; on an integrator that is not
\* initialized it returns None without calling the model.
C5_QueryNeverRaises ==
    last.op = "get_tyre_health" =>
        /\ last.exc = ""
        /\ ModelRaised => (last.value = Absent /\ cache = last.pre.cache)
        /\ ~last.pre.initialized
              => (last.value = Absent /\ last.inner = << >> /\ cache = last.pre.cache)

\* The model raised inside get_tyre_health, which returned None.
C5_Witness ==
    /\ last.op = "get_tyre_health"
    /\ last.pre.initialized
    /\ ModelRaised
    /\ last.exc = ""
    /\ last.value = Absent

\* C11: for a fixed compound, track condition and effective degradation the
\* health does not rise as laps_on_tyre grows, and it is 0 from
\* laps_on_tyre = max_degradation / effective_degradation on.
C11_HealthNonIncreasing ==
    /\ [][(last.op = "health" /\ last'.op = "health")
             => last'.value[1] <= last.value[1]]_vars
    /\ [](last.op = "health"
             => ((last.args[3] > 0
                  /\ last.args[4] * last.args[3]
                        >= model.tyre_profiles[last.args[1]].max_degradation)
                    => last.value = Some(0)))

\* A slick on a wet track, worn out before the laps reach
\* max_degradation / effective_degradation, and a rate below the floor worn
\* out at that number of laps.
C11_Witness ==
    /\ last.op = "health"
    /\ last.value = Some(0)
    /\ \/ /\ last.args[2] = "WET"
          /\ model.tyre_profiles[last.args[1]].category = SLICK
          /\ last.args[4] * last.args[3] < model.tyre_profiles[last.args[1]].max_degradation
       \/ /\ last.args[3] > 0
          /\ last.args[3] < DegradationFloor
          /\ last.args[4] * last.args[3] = model.tyre_profiles[last.args[1]].max_degradation

\* C12: every health record handed out by the integrator, fresh from the
\* model or from the cache, carries a health in 0..100.
C12_HealthInRange ==
    /\ (last.op = "get_tyre_health" /\ last.value # Absent)
          => last.value[1].health \in 0..100
    /\ \A k \in DOMAIN cache : cache[k].health \in 0..100

\* A record computed by the model for a worn-out tyre, and one for a fresh tyre.
C12_Witness ==
    /\ last.op = "get_tyre_health"
    /\ last.inner # << >>
    /\ last.value # Absent
    /\ last.value[1].health = 0
    /\ \E k \in DOMAIN cache : cache[k].health > 0

\* The model a freshly constructed one becomes by the fit just made alone.
FitAlone == Fit(NewModel(model.config), last.args[1], last.args[2]).model

\* C13: after a fit on a history with an analyzable lap, whatever was fitted
\* before, the model (rates, track abrasion, latent sequences, fitted flag)
\* equals a freshly constructed model fitted on that history alone.
C13_RefitOverwrites ==
    (last.op = "fit" /\ last.exc = "" /\ ~CleanedEmpty) => model = FitAlone

\* The same history fitted twice: the second fit leaves the track abrasion,
\* the variances and the fitted flag of the first, and moves a rate.
C13_Witness ==
    /\ last.op = "fit"
    /\ last.exc = ""
    /\ last.pre.model.fitted
    /\ last.pre.model = FitAlone
    /\ model.track_abrasion = last.pre.model.track_abrasion
    /\ model.latent_uncertainty = last.pre.model.latent_uncertainty
    /\ model.fitted
    /\ \E c \in Compounds :
          model.tyre_profiles[c].degradation_rate
             # last.pre.model.tyre_profiles[c].degradation_rate

\* C14: the cache loses entries only in clear_cache, which empties it and
\* leaves the initialized flag and the model as they were; any other step
\* keeps every cached key and adds at most the key it queried; and a query of
\* an initialized integrator for a key that is not cached (as every key is
\* after clear_cache) invokes the model.
C14_CacheClearedOnlyByClear ==
    /\ [][/\ last'.op = "clear_cache"
                => (cache' = EmptyDict /\ initialized' = initialized /\ model' = model)
          /\ last'.op # "clear_cache" => DOMAIN cache \subseteq DOMAIN cache'
          /\ last'.op = "get_tyre_health"
                => DOMAIN cache' \subseteq DOMAIN cache
                      \cup { CacheKey(last'.args[1], last'.args[2], last'.args[3]) }
          /\ last'.op \notin { "get_tyre_health", "clear_cache" } => cache' = cache]_vars
    /\ []((last.op = "get_tyre_health" /\ last.pre.initialized
             /\ LastKey \notin DOMAIN last.pre.cache) => ModelInvoked)

\* clear_cache has emptied a cache of two entries of an initialized integrator.
C14_Witness ==
    /\ last.op = "clear_cache"
    /\ Cardinality(DOMAIN last.pre.cache) >= 2
    /\ cache = EmptyDict
    /\ initialized
    /\ model = last.pre.model

\* The health a bar was asked for, clamped as the claim describes.
BarClamped == IF last.args[1] < 0 THEN 0 ELSE IF last.args[1] > 100 THEN 100 ELSE last.args[1]

\* C15: format_tyre_health_bar reports the health clamped into 0..100, a
\* fill_width of clamped/100 of the width (between 0 and the width), and the
\* colour of the band of the clamped health: (0, 220, 0) from 75; green 220
\* and red int(220 * (1 - (h - 50) / 25)) in 50..74; red 220 and green
\* int(220 * (h - 25) / 25) in 25..49; red 220 and green int(110 * h / 25)
\* below 25; blue always 0.
C15_HealthBar ==
    last.op = "format_tyre_health_bar"
        => /\ last.value[1].health = BarClamped
           /\ last.value[1].fill_width = BarClamped * last.args[2]
           /\ 0 <= last.value[1].fill_width
           /\ last.value[1].fill_width <= 100 * last.args[2]
           /\ last.value[1].color[3] = 0
           /\ BarClamped >= 75 => last.value[1].color = << 0, 220, 0 >>
           /\ (BarClamped >= 50 /\ BarClamped < 75)
                 => /\ last.value[1].color[2] = 220
                    /\ last.value[1].color[1] = IntScaledComplement(220, BarClamped - 50)
           /\ (BarClamped >= 25 /\ BarClamped < 50)
                 => /\ last.value[1].color[1] = 220
                    /\ last.value[1].color[2] = IntScaled(220, BarClamped - 25)
           /\ BarClamped < 25
                 => /\ last.value[1].color[1] = 220
                    /\ last.value[1].color[2] = IntScaled(110, BarClamped)

\* A bar for a health above 100, drawn full and green.
C15_Witness ==
    /\ last.op = "format_tyre_health_bar"
    /\ last.args[1] > 100
    /\ last.args[2] > 0
    /\ last.value[1].health = 100
    /\ last.value[1].fill_width = 100 * last.args[2]
    /\ last.value[1].color = << 0, 220, 0 >>

\* The table with the driver's laps moved in front of the other drivers'.
DriverFirst(df, driver) ==
    LET Own(r) == r.Driver = driver
        Other(r) == r.Driver # driver
    IN [ df EXCEPT !.rows = SelectSeq(@, Own) \o SelectSeq(df.rows, Other) ]

\* The latent sequence (means, variances) the filter of model m leaves for a
\* driver when run on the prepared laps of df; Absent when it leaves none.
LatentFor(m, df, driver) ==
    LET r == ComputeLatentStates(m, PrepareData(df))
    IN IF driver \in DOMAIN r.latent_states
       THEN Some(<< r.latent_states[driver], r.latent_uncertainty[driver] >>)
       ELSE Absent

\* C16: with the catalogue and the abrasion factor a fit has left, the latent
\* sequence the filter produces for a driver from the whole table is the one
\* it produces from that driver's laps alone, and the one it produces with
\* the drivers in another order.
C16_OwnLapsOnly ==
    (last.op = "fit" /\ WellFormed(FitTable))
        => \A d \in Drivers :
              /\ LatentFor(model, FitTable, d) = LatentFor(model, DriverFilter(FitTable, d), d)
              /\ LatentFor(model, FitTable, d) = LatentFor(model, DriverFirst(FitTable, d), d)

\* The filter fails on HAM's second lap and leaves no sequence for VER, whose
\* single lap alone gives a sequence of one state.
C16_Witness ==
    /\ last.op = "fit"
    /\ FitTable = LoneLapTable
    /\ last.exc = "ZeroDivisionError"
    /\ LatentFor(model, FitTable, "VER") = Absent
    /\ LatentFor(model, DriverFilter(FitTable, "VER"), "VER") # Absent

\* The per-lap rise of the lap time over the table a fit was given, and of
\* the lap time less the fuel term (fuel_effect times the fuel burnt a lap).
LapTimeRise == FitTable.rows[2].LapTime - FitTable.rows[1].LapTime
CorrectedRise == LapTimeRise + FuelSlope

PriorMediumRate == DefaultProfiles["MEDIUM"].degradation_rate

FreshDefaultFit ==
    /\ last.op = "fit"
    /\ last.exc = ""
    /\ last.pre.model = NewModel(DefaultConfig)

\* C17 (as stated): a fresh default model fitted on twelve consecutive DRY
\* MEDIUM laps of one stint whose lap time rises by the prior MEDIUM rate each
\* lap ends with a MEDIUM rate between the smaller and the larger of the prior
\* rate and that per-lap rise.
C17_ScenarioRate ==
    (FreshDefaultFit /\ FitTable = ScenarioTable)
        => /\ model.tyre_profiles["MEDIUM"].degradation_rate >= Min(PriorMediumRate, LapTimeRise)
           /\ model.tyre_profiles["MEDIUM"].degradation_rate <= Max(PriorMediumRate, LapTimeRise)

\* C17 (amended): on either scenario table the MEDIUM rate ends between the
\* smaller and the larger of the prior rate and the per-lap rise of the lap
\* time less the fuel term.
C17_ScenarioCorrectedRate ==
    (FreshDefaultFit /\ FitTable \in { ScenarioTable, ScenarioCorrectedTable })
        => /\ model.tyre_profiles["MEDIUM"].degradation_rate >= Min(PriorMediumRate, CorrectedRise)
           /\ model.tyre_profiles["MEDIUM"].degradation_rate <= Max(PriorMediumRate, CorrectedRise)

\* The scenario with the fuel-corrected lap time rising by the prior rate:
\* the fit keeps the rate.  And the scenario as stated: the rate has moved
\* strictly between the prior rate and the fuel-corrected rise.
C17_Witness ==
    /\ FreshDefaultFit
    /\ model.fitted
    /\ \/ /\ FitTable = ScenarioCorrectedTable
          /\ CorrectedRise = PriorMediumRate
          /\ model.tyre_profiles["MEDIUM"].degradation_rate = PriorMediumRate
       \/ /\ FitTable = ScenarioTable
          /\ LapTimeRise = PriorMediumRate
          /\ model.tyre_profiles["MEDIUM"].degradation_rate > PriorMediumRate
          /\ model.tyre_profiles["MEDIUM"].degradation_rate < CorrectedRise

\* The number of states the filter had appended for a driver once it had
\* gone through lap i of the log.
Recorded(log, i) ==
    Cardinality({ j \in 1..i : log[j].branch \in { "reset", "update", "carry" } })

\* C18: a lap whose compound is not in the catalogue does not end the filter
\* and leaves its state as it was: no reset and no update, the mean and the
\* variance recorded for the lap are those recorded for the lap before it, and
\* the next lap finds the state, the remembered stint and the remembered
\* condition category that this lap found.
C18_UnknownCompoundCarried ==
    last.op = "fit" =>
        \A di \in LogEntries :
            LET d == di[1]
                i == di[2]
                log == last.log[d]
                e == log[i]
            IN ~KnownCompound(e) =>
                 /\ e.branch \in { "carry", "skip" }
                 /\ e.branch = "carry" <=> e.before[1] # Absent
                 /\ e.after = e.before
                 /\ i < Len(log) =>
                       /\ log[i + 1].before = e.before
                       /\ log[i + 1].prev_stint = e.prev_stint
                       /\ log[i + 1].prev_condition_category = e.prev_condition_category
                 /\ (e.branch = "carry" /\ last.exc = "") =>
                       /\ Recorded(log, i) >= 2
                       /\ model.latent_states[d][Recorded(log, i)]
                             = model.latent_states[d][Recorded(log, i) - 1]
                       /\ model.latent_uncertainty[d][Recorded(log, i)]
                             = model.latent_uncertainty[d][Recorded(log, i) - 1]

\* An unknown-compound lap between two laps of one stint: the state of the
\* first lap is recorded again, and the third lap is an update, not a reset.
C18_Witness ==
    /\ last.op = "fit"
    /\ last.exc = ""
    /\ \E d \in DOMAIN last.log :
          LET log == last.log[d]
          IN /\ Len(log) = 3
             /\ log[1].branch = "reset"
             /\ ~KnownCompound(log[2])
             /\ log[2].stint # log[1].stint
             /\ log[2].branch = "carry"
             /\ log[3].branch = "update"
             /\ model.latent_states[d][2] = model.latent_states[d][1]
             /\ model.latent_states[d][3] # model.latent_states[d][2]

\* The prepared laps of a driver in the history the fit was given, in lap order.
PreparedLapsOf(d) ==
    DriverLaps(PrepareData(DriverFilter(last.args[1], last.args[2])).rows, d)

\* C19: after a fit that ran to its end, every driver's mean list and variance
\* list have one entry for each prepared lap of the driver, entry i being the
\* state the filter had after the driver's i-th prepared lap, wherever the
\* unknown-compound laps are.
C19_OneStatePerLap ==
    (last.op = "fit" /\ last.exc = "" /\ ~CleanedEmpty)
        => \A d \in DOMAIN last.log :
              /\ d \in DOMAIN model.latent_states
              /\ Len(model.latent_states[d]) = Len(PreparedLapsOf(d))
              /\ Len(model.latent_uncertainty[d]) = Len(PreparedLapsOf(d))
              /\ \A i \in DOMAIN last.log[d] :
                    /\ last.log[d][i].lap = PreparedLapsOf(d)[i].LapNumber
                    /\ last.log[d][i].after = << Some(model.latent_states[d][i]),
                                                 Some(model.latent_uncertainty[d][i]) >>

\* A driver whose first prepared lap has an unknown compound: three prepared
\* laps, two states, the first of them belonging to the second lap.
C19_Witness ==
    /\ last.op = "fit"
    /\ last.exc = ""
    /\ model.fitted
    /\ \E d \in DOMAIN last.log :
          /\ Len(PreparedLapsOf(d)) = 3
          /\ ~KnownCompound(last.log[d][1])
          /\ last.log[d][1].branch = "skip"
          /\ Len(model.latent_states[d]) = 2
          /\ last.log[d][2].after[1] = Some(model.latent_states[d][1])

\* A lap as the caller's table and the prepared table both name it.
RawLapId(r) == << r.Driver, r.LapNumber, r.LapTime >>
PreparedLapId(r) == << r.Driver, r.LapNumber, r.LapTimeSeconds >>

\* The laps of the table handed to _prepare_data that the claim says are kept.
LapsToKeep ==
    { RawLapId(last.args[1].rows[i]) :
        i \in { j \in DOMAIN last.args[1].rows :
                  /\ last.args[1].rows[j].LapNumber > 1
                  /\ ~last.args[1].rows[j].PitInTime
                  /\ ~last.args[1].rows[j].PitOutTime
                  /\ last.args[1].rows[j].LapTime # NaT
                  /\ last.args[1].rows[j].Compound # NaN } }

\* C20: _prepare_data returns the laps of its input with lap number above 1,
\* no pit-in time, no pit-out time, a lap time and a compound, each once and
\* no other lap, and the caller's table is afterwards what it was.
C20_PreparedExactly ==
    last.op = "prepare_data"
        => /\ last.exc = ""
           /\ { PreparedLapId(last.value[1].rows[i]) : i \in DOMAIN last.value[1].rows }
                 = LapsToKeep
           /\ Len(last.value[1].rows) = Cardinality(LapsToKeep)
           /\ laps_df = Some(last.args[1])

\* A table without TrackCondition column with a lap kept and a lap dropped.
C20_Witness ==
    /\ last.op = "prepare_data"
    /\ "TrackCondition" \notin last.args[1].cols
    /\ "TrackCondition" \in last.value[1].cols
    /\ Len(last.args[1].rows) = 2
    /\ Len(last.value[1].rows) = 1
    /\ last.args[1].rows[1].PitOutTime
    /\ laps_df = Some(last.args[1])

\* The rows of the table _prepare_data returned.
PreparedRows == last.value[1].rows

\* No two laps of the input that pass the row filter are of one driver and
\* one lap number.
NoRepeatedLap ==
    \A i, j \in DOMAIN PreparedRows :
        (i # j /\ PreparedRows[i].Driver = PreparedRows[j].Driver)
            => PreparedRows[i].LapNumber # PreparedRows[j].LapNumber

\* C21 (as stated): in the prepared table the lap numbers of every driver's
\* rows are strictly increasing in row order, for every input.
C21_StrictlyIncreasing ==
    last.op = "prepare_data"
        => \A i, j \in DOMAIN PreparedRows :
              (i < j /\ PreparedRows[i].Driver = PreparedRows[j].Driver)
                  => PreparedRows[i].LapNumber < PreparedRows[j].LapNumber

\* C21 (amended): the prepared table is sorted by driver and then by lap
\* number: the lap numbers of a driver's rows never decrease in row order, and
\* they are strictly increasing when the input holds no two clean laps of one
\* driver with the same lap number.
C21_SortedByDriverAndLap ==
    last.op = "prepare_data"
        => \A i, j \in DOMAIN PreparedRows :
              i < j =>
                  /\ DriverRank(PreparedRows[i].Driver) <= DriverRank(PreparedRows[j].Driver)
                  /\ PreparedRows[i].Driver = PreparedRows[j].Driver
                        => /\ PreparedRows[i].LapNumber <= PreparedRows[j].LapNumber
                           /\ NoRepeatedLap => PreparedRows[i].LapNumber < PreparedRows[j].LapNumber

\* Two clean laps of one driver given in descending order come out ascending.
C21_Witness ==
    /\ last.op = "prepare_data"
    /\ Len(last.args[1].rows) = 2
    /\ Len(PreparedRows) = 2
    /\ last.args[1].rows[1].Driver = last.args[1].rows[2].Driver
    /\ last.args[1].rows[1].LapNumber > last.args[1].rows[2].LapNumber
    /\ PreparedRows[1].LapNumber < PreparedRows[2].LapNumber

\* The cleaned laps of the history the fit was given.
FitPreparedRows == PrepareData(DriverFilter(last.args[1], last.args[2])).rows

\* The slope samples the fit had for a compound; whether there are any does
\* not depend on the track abrasion, which only scales them.
NoSlopeSample(c) == CompoundSlopes(last.pre.model, FitPreparedRows, c) = << >>

\* A stint of compound c as the claim describes one that yields a sample: at
\* least 5 laps, at least 3 of them usable for the compound's category, at
\* least 3 of the usable laps left by the warm-up and analysis-cap cuts, and
\* fuel-corrected lap times over those that are not all equal.
StintWithSample(c, laps) ==
    LET tyre == last.pre.model.tyre_profiles[c]
        Usable(r) == ShouldUseLapForFitting(last.pre.model.tyre_profiles, c, r.TrackCondition)
        usable == SelectSeq(laps, Usable)
        kept == { i \in DOMAIN usable :
                    /\ last.pre.model.config.enable_warmup => i > tyre.warmup_laps
                    /\ tyre.max_analysis_laps # Absent => i <= tyre.max_analysis_laps[1] }
    IN /\ Len(laps) >= 5
       /\ Len(usable) >= 3
       /\ Cardinality(kept) >= 3
       /\ \E i, j \in kept : FuelCorrected(usable)[i] # FuelCorrected(usable)[j]

SampleDescribed(c) ==
    \E g \in StintGroups(CompoundLaps(FitPreparedRows, c)) :
        StintWithSample(c, GroupLaps(CompoundLaps(FitPreparedRows, c), g))

\* C22: a fit leaves the degradation_rate of every compound without a valid
\* slope sample as it was, and changes no other field of any profile.
C22_PriorRetained ==
    last.op = "fit"
        => \A c \in Compounds :
              /\ WellFormed(FitTable) => (NoSlopeSample(c) <=> ~SampleDescribed(c))
              /\ model.tyre_profiles[c]
                    = [ last.pre.model.tyre_profiles[c] EXCEPT
                          !.degradation_rate = model.tyre_profiles[c].degradation_rate ]
              /\ ~SampleDescribed(c)
                    => model.tyre_profiles[c].degradation_rate
                          = last.pre.model.tyre_profiles[c].degradation_rate

\* A second fit on a history with laps of a compound but no stint long enough
\* for a sample: the rate the first fit had given the compound is kept.
C22_Witness ==
    /\ last.op = "fit"
    /\ last.exc = ""
    /\ model.fitted
    /\ \E c \in Compounds :
          /\ CompoundLaps(FitPreparedRows, c) # << >>
          /\ NoSlopeSample(c)
          /\ model.tyre_profiles[c].degradation_rate # DefaultProfiles[c].degradation_rate
          /\ model.tyre_profiles[c].degradation_rate
                = last.pre.model.tyre_profiles[c].degradation_rate

\* The slope samples of a compound in the fit just made: those of the model
\* as it was, with the track abrasion this fit estimated.
FitSlopes(c) ==
    CompoundSlopes([ last.pre.model EXCEPT !.track_abrasion = model.track_abrasion ],
                   FitPreparedRows, c)

\* The prior weight the claim gives a category, in tenths.
DescribedWeight(category) ==
    IF category = SLICK THEN 3 ELSE IF category = INTER THEN 4 ELSE 5

\* The parameter estimation of the fit ran to its end.
ParametersEstimated ==
    /\ last.op = "fit"
    /\ ~CleanedEmpty
    /\ last.exc # "KeyError"

EntryCategory(e) == model.tyre_profiles[e.compound].category
EntryPenalty(e) == MismatchPenalties(EntryCategory(e), ConditionOf(e.condition)) * PenaltyUnit

\* The pairs of the default table the claim names: penalty 0.5 and penalty 0.
NamedUninflated(e) ==
    \/ EntryCategory(e) = INTER /\ ConditionOf(e.condition) = "WET"
    \/ EntryCategory(e) = SLICK /\ ConditionOf(e.condition) = "DRY"
    \/ EntryCategory(e) = INTER /\ ConditionOf(e.condition) = "DAMP"
    \/ EntryCategory(e) = WETCAT /\ ConditionOf(e.condition) = "WET"

\* The mean after a predict-update step in which the expected observation is
\* mean + increment + fuel term + penalty.
MeanWithPenalty(e) ==
    e.before[1][1]
       + (e.nu * (e.gain[2] - e.gain[1])) \div e.gain[2]
       + (e.gain[1] * (e.lap_time - (e.before[1][1] + e.nu
                                       + FuelEffectPrior * FuelMass(e.lap)
                                       + e.mismatch_penalty))) \div e.gain[2]

\* C24: in every predict-update step the degradation increment is multiplied
\* by (1 + penalty / 10) exactly when the mismatch penalty of the lap is above
\* 0.5; an intermediate on a WET track (0.5) and the matched pairs (0) are not
\* inflated; and the penalty is part of the expected observation.
C24_InflationAboveHalf ==
    last.op = "fit" =>
        \A di \in LogEntries :
            LET e == last.log[di[1]][di[2]]
            IN e.branch \in { "update", "error" } =>
                 /\ e.mismatch_penalty = EntryPenalty(e)
                 /\ 2 * e.mismatch_penalty > Scale
                       => e.nu = (e.nu_base * (10 * Scale + e.mismatch_penalty)) \div (10 * Scale)
                 /\ 2 * e.mismatch_penalty <= Scale => e.nu = e.nu_base
                 /\ NamedUninflated(e) => e.nu = e.nu_base
                 /\ e.branch = "update" => e.after[1] = Some(MeanWithPenalty(e))

\* An intermediate updated on a WET track with its increment as it was and
\* the penalty of 0.5 in the expected observation, and a wet tyre updated on
\* a DAMP track with its increment inflated.
C24_Witness ==
    /\ last.op = "fit"
    /\ last.exc = ""
    /\ \E d1, d2 \in DOMAIN last.log :
          \E i \in DOMAIN last.log[d1], j \in DOMAIN last.log[d2] :
             /\ last.log[d1][i].branch = "update"
             /\ EntryCategory(last.log[d1][i]) = INTER
             /\ last.log[d1][i].condition = "WET"
             /\ 2 * last.log[d1][i].mismatch_penalty = Scale
             /\ last.log[d1][i].nu = last.log[d1][i].nu_base
             /\ last.log[d1][i].nu > 0
             /\ last.log[d1][i].gain[1] > 0
             /\ last.log[d2][j].branch = "update"
             /\ EntryCategory(last.log[d2][j]) = WETCAT
             /\ last.log[d2][j].nu > last.log[d2][j].nu_base

\* The laps of the queried driver at or before the queried lap among the laps
\* of the integrator's table that pass data preparation, in lap order.
CleanedQueryLaps ==
    LET Sel(r) == r.Driver = last.args[1] /\ r.LapNumber <= last.args[2]
    IN SortByLap(SelectSeq(PrepareData(laps_df[1]).rows, Sel))

\* Those of them in the stint of the most recent one.
CleanedLapsOnTyre ==
    Cardinality({ i \in DOMAIN CleanedQueryLaps :
                    CleanedQueryLaps[i].Stint
                       = CleanedQueryLaps[Len(CleanedQueryLaps)].Stint })

\* A record the model computed for the integrator in this call.
FreshRecord ==
    /\ last.op = "get_tyre_health"
    /\ ModelInvoked
    /\ last.value # Absent

\* C25: a record the model computes for the integrator has a laps_on_tyre equal
\* to the number of the driver's cleaned laps (lap number above 1, no pit-in,
\* no pit-out, lap time and compound present) in the current stint at or
\* before the queried lap, and the compound of the latest of them.
C25_CleanedLapsOnTyre ==
    FreshRecord
        => /\ CleanedQueryLaps # << >>
           /\ last.value[1].laps_on_tyre = CleanedLapsOnTyre
           /\ last.value[1].compound = CleanedQueryLaps[Len(CleanedQueryLaps)].Compound

\* A query at lap 2: the first lap, which data preparation removes, is counted.
C25_Witness ==
    /\ FreshRecord
    /\ last.args[2] = 2
    /\ CleanedQueryLaps # << >>
    /\ CleanedLapsOnTyre = 1
    /\ last.value[1].laps_on_tyre = 2

\* C26: whenever the integrator is initialized its model is fitted.
C26_InitializedIsFitted == initialized => model.fitted

\* An integrator initialized on a table whose laps data preparation all
\* removed: its query reached the model's 'not fitted' error.
C26_Witness ==
    /\ initialized
    /\ ~model.fitted
    /\ laps_df # Absent
    /\ ~IsEmpty(laps_df[1])
    /\ last.op = "get_tyre_health"
    /\ last.inner = << [ op |-> "get_health", exc |-> "RuntimeError" ] >>
    /\ last.value = Absent

\* What the model would return now for a key of the cache.
ComputedNow(d, n, tc) == GetHealth(model, d, n, laps_df[1], tc)

\* C27: every entry of the cache is the record the model would compute now
\* for the entry's driver, lap and track condition.
C27_CacheCoherent ==
    \A d \in Drivers, n \in IntegratorLaps, tc \in IntegratorConditions :
        CacheKey(d, n, tc) \in DOMAIN cache
            => /\ ComputedNow(d, n, tc).exc = ""
               /\ ComputedNow(d, n, tc).value = Some(cache[CacheKey(d, n, tc)])

\* A second initialize_from_session has re-fitted the model and left in the
\* cache a record computed from the first fit.
C27_Witness ==
    /\ last.op = "initialize_from_session"
    /\ last.pre.model.fitted
    /\ model.fitted
    /\ model # last.pre.model
    /\ cache = last.pre.cache
    /\ \E d \in Drivers, n \in IntegratorLaps, tc \in IntegratorConditions :
          /\ CacheKey(d, n, tc) \in DOMAIN cache
          /\ ComputedNow(d, n, tc).exc = ""
          /\ ComputedNow(d, n, tc).value # Absent
          /\ ComputedNow(d, n, tc).value # Some(cache[CacheKey(d, n, tc)])

\* C28: every variance the filter records is at least 0 and at most the
\* larger of the process-noise and the observation-noise variance: it is the
\* process-noise variance after a reset, and after a predict-update step it is
\* at most the predicted variance (the variance before plus the process
\* noise) and at most the observation-noise variance.
C28_VarianceBounded ==
    last.op = "fit" =>
        /\ \A di \in LogEntries :
              LET e == last.log[di[1]][di[2]]
              IN /\ e.branch = "reset" => e.after[2] = Some(ProcVar(model))
                 /\ e.branch = "update" =>
                       /\ e.gain[1] = e.before[2][1] + ProcVar(model)
                       /\ e.after[2][1] <= e.gain[1]
                       /\ e.after[2][1] <= ObsVar(model)
                 /\ e.branch \in { "reset", "update", "carry" } =>
                       /\ e.after[2][1] >= 0
                       /\ e.after[2][1] <= Max(ProcVar(model), ObsVar(model))
        /\ \A d \in DOMAIN model.latent_uncertainty :
              \A i \in DOMAIN model.latent_uncertainty[d] :
                 /\ model.latent_uncertainty[d][i] >= 0
                 /\ model.latent_uncertainty[d][i] <= Max(ProcVar(model), ObsVar(model))

\* A stint of at least ten predict-update steps in a row with both noise
\* scales positive: the variance is still positive and below both bounds.
C28_Witness ==
    /\ last.op = "fit"
    /\ last.exc = ""
    /\ ProcVar(model) > 0
    /\ ObsVar(model) > 0
    /\ \E d \in DOMAIN last.log :
          /\ Len(last.log[d]) >= 11
          /\ \A i \in 2..11 : last.log[d][i].branch = "update"
          /\ last.log[d][11].after[2][1] > 0
          /\ last.log[d][11].after[2][1] < ObsVar(model)
          /\ last.log[d][11].after[2][1] < last.log[d][11].gain[1]
          /\ model.latent_uncertainty[d][11] = last.log[d][11].after[2][1]

\* The colour of the bar for a health one above the health of the bar made.
NextBarColor == FormatTyreHealthBar(last.args[1] + 1, last.args[2], last.args[3]).color

\* C29: over the healths 0..100 the green component of the bar's colour never
\* falls and the red component never rises as the health goes up by one.
C29_ColourMonotone ==
    (last.op = "format_tyre_health_bar" /\ last.args[1] \in 0..99)
        => /\ NextBarColor[2] >= last.value[1].color[2]
           /\ NextBarColor[1] <= last.value[1].color[1]

\* The bar for health 24, orange; the bar for health 25 is pure red.
C29_Witness ==
    /\ last.op = "format_tyre_health_bar"
    /\ last.args[1] = 24
    /\ last.value[1].color = << 220, 105, 0 >>
    /\ NextBarColor = << 220, 0, 0 >>

\* A get_tyre_health call on an initialized integrator.
InitializedQuery == last.op = "get_tyre_health" /\ last.pre.initialized

\* C30: on an initialized integrator a query with force_refresh invokes the
\* model whether or not the key is cached; a query that computed a record has
\* put it in the cache under its key and left every other entry as it was; a
\* query that returned None has left the cache as it was; and a query without
\* force_refresh for a cached key returns the cached record, the refreshed one
\* after a refresh.
C30_ForceRefresh ==
    InitializedQuery
        => /\ last.args[4] => ModelInvoked
           /\ (ModelInvoked /\ last.value # Absent)
                 => /\ DOMAIN cache = DOMAIN last.pre.cache \cup { LastKey }
                    /\ cache[LastKey] = last.value[1]
                    /\ \A k \in DOMAIN last.pre.cache :
                          k # LastKey => cache[k] = last.pre.cache[k]
           /\ last.value = Absent => cache = last.pre.cache
           /\ (~last.args[4] /\ LastKey \in DOMAIN last.pre.cache)
                 => last.value = Some(last.pre.cache[LastKey])

\* A forced query for a cached key after a re-fit: the model was invoked, the
\* entry of the key was replaced by a different record, and the other entry of
\* the cache stayed.
C30_Witness ==
    /\ InitializedQuery
    /\ last.args[4]
    /\ ModelInvoked
    /\ LastKey \in DOMAIN last.pre.cache
    /\ last.value # Absent
    /\ last.value[1] # last.pre.cache[LastKey]
    /\ cache[LastKey] = last.value[1]
    /\ Cardinality(DOMAIN cache) >= 2

====
